---------------------------- MODULE Spec2Model ----------------------------
(***************************************************************************)
(* A model of the expression-tree core of mathy: the binary tree of        *)
(* expression nodes with parent links (mathy/core/expressions.py), its     *)
(* text rendering and evaluation, the tracked clone, the commutative swap  *)
(* rule (mathy/core/rules/commutative_property.py) and the tree helpers of *)
(* mathy/helpers.py.                                                       *)
(*                                                                         *)
(* Nodes live in a heap: a function from addresses to node records.  An    *)
(* address stands for the identity of a Python object, the field `id` for  *)
(* the identifier the constructor assigns.  Operations are operators that  *)
(* take a heap and return the heap after the call (and the result).        *)
(*                                                                         *)
(* mathy/core/tree.py (BinaryTreeNode), mathy/core/rule.py (BaseRule and   *)
(* the change record) and mathy/core/parser.py are not among the source    *)
(* files; what the model needs of them follows the specification's         *)
(* sections 3, 4.1, 4.3 and 4.4.                                           *)
(***************************************************************************)
EXTENDS Integers, Sequences, FiniteSets, TLC

VARIABLES heap, pre, op, steps

vars == <<heap, pre, op, steps>>

---------------------------------------------------------------------------
(* Bounds of the model.                                                    *)

\* Largest number of nodes of an input expression tree.
MaxSize == 5
\* Largest Constant value of an input tree (values 1..MaxConst).
MaxConst == 2
\* Largest value a variable is bound to (values 0..MaxBind).
MaxBind == 2
\* Largest number of nodes of an input tree of the link mutations.
MaxLinkSize == 3
\* Number of link mutations a behaviour of SpecLinks performs.
MaxSteps == 2
\* Largest absolute value of a Constant whose type id is taken.
MaxValue == 49
\* Largest coefficient of a term that is factored.
MaxCoef == 12

\* The variable identifiers of the input trees.
VarNames == {"x", "y"}

---------------------------------------------------------------------------
(* Node kinds: the class names, as path_to_root spells them.               *)

ConstantExpression == "ConstantExpression"
VariableExpression == "VariableExpression"
NegateExpression == "NegateExpression"
AddExpression == "AddExpression"
SubtractExpression == "SubtractExpression"
MultiplyExpression == "MultiplyExpression"
DivideExpression == "DivideExpression"
PowerExpression == "PowerExpression"
EqualExpression == "EqualExpression"
AbsExpression == "AbsExpression"
SgnExpression == "SgnExpression"
Free == "Free"

BinaryExpression ==
    {AddExpression, SubtractExpression, MultiplyExpression, DivideExpression,
     PowerExpression, EqualExpression}

UnaryExpression == {NegateExpression}

\* The classes that derive from FunctionExpression.
FunctionExpression == {AbsExpression, SgnExpression}

\* The absent child, parent or tracked node.
None == 0

\* The absent cloned_target (a path_to_root key is never empty).
NoPath == <<>>

LEFT == "left"
RIGHT == "right"

OOO_FUNCTION == 4
OOO_PARENS == 3
OOO_EXPONENT == 2
OOO_MULTDIV == 1
OOO_ADDSUB == 0
OOO_INVALID == -1

---------------------------------------------------------------------------
(* The heap.                                                               *)

\* Room for an input tree and one clone of it, for the tree a parse builds,
\* and for a quotient of two leaves with the eight nodes of its derivative.
MaxNodes == 2 * MaxSize + 1

Nodes == 1..MaxNodes

FreeNode ==
    [kind |-> Free, left |-> None, right |-> None, parent |-> None,
     changed |-> FALSE, value |-> 0, identifier |-> "", id |-> 0,
     cloned_node |-> None, cloned_target |-> NoPath]

EmptyHeap == [a \in Nodes |-> FreeNode]

Used(h) == {a \in Nodes : h[a].kind # Free}

HasRoom(h, k) == Cardinality(Used(h)) + k <= MaxNodes

\* The address of the next object constructed.
Alloc(h) == CHOOSE a \in Nodes \ Used(h) : \A b \in Nodes \ Used(h) : a <= b

\* set_left(child): the link and the child's parent pointer; None detaches.
set_left(h, self, child) ==
    IF child = None
    THEN [h EXCEPT ![self].left = None]
    ELSE [h EXCEPT ![self].left = child, ![child].parent = self]

\* set_right(child).
set_right(h, self, child) ==
    IF child = None
    THEN [h EXCEPT ![self].right = None]
    ELSE [h EXCEPT ![self].right = child, ![child].parent = self]

\* set_side(child, side).
set_side(h, self, child, side) ==
    IF side = LEFT THEN set_left(h, self, child) ELSE set_right(h, self, child)

\* get_side(child): the side the child occupies, or "none".
get_side(h, self, child) ==
    IF h[self].left = child THEN LEFT
    ELSE IF h[self].right = child THEN RIGHT
    ELSE "none"

\* MathExpression.__init__ on top of the tree node's constructor: a new
\* object with a new identifier, no links, not changed, nothing tracked.
NewNode(h, k) ==
    LET a == Alloc(h)
    IN  [h |-> [h EXCEPT ![a] = [FreeNode EXCEPT !.kind = k, !.id = a]],
         r |-> a]

\* ConstantExpression(value).
NewConstant(h, v) ==
    LET n == NewNode(h, ConstantExpression)
    IN  [h |-> [n.h EXCEPT ![n.r].value = v], r |-> n.r]

\* VariableExpression(identifier).
NewVariable(h, name) ==
    LET n == NewNode(h, VariableExpression)
    IN  [h |-> [n.h EXCEPT ![n.r].identifier = name], r |-> n.r]

\* UnaryExpression(child): set_child is set_left, the operator being on
\* the left.
NewUnary(h, k, child) ==
    LET n == NewNode(h, k)
    IN  [h |-> set_left(n.h, n.r, child), r |-> n.r]

\* BinaryExpression(left, right).
NewBinary(h, k, l, r) ==
    LET n == NewNode(h, k)
    IN  [h |-> set_right(set_left(n.h, n.r, l), n.r, r), r |-> n.r]

RECURSIVE get_root(_, _)
\* get_root(): the topmost ancestor.
get_root(h, n) == IF h[n].parent = None THEN n ELSE get_root(h, h[n].parent)

RECURSIVE ReachesRoot(_, _, _)
\* The parent chain of n ends, seen being the nodes passed on the way.
ReachesRoot(h, n, seen) ==
    IF h[n].parent = None THEN TRUE
    ELSE IF h[n].parent \in seen THEN FALSE
    ELSE ReachesRoot(h, h[n].parent, seen \cup {h[n].parent})

\* get_root() returns: it loops for ever on a chain of parents that closes.
Rooted(h, n) == ReachesRoot(h, n, {n})

RECURSIVE Subtree(_, _)
\* The nodes visit_inorder reaches from n.
Subtree(h, n) ==
    IF n = None THEN {}
    ELSE Subtree(h, h[n].left) \cup {n} \cup Subtree(h, h[n].right)

RECURSIVE toList(_, _)
\* toList("inorder"): left, self, right.
toList(h, n) ==
    IF n = None THEN <<>>
    ELSE toList(h, h[n].left) \o <<n>> \o toList(h, h[n].right)

\* count_nodes().
count_nodes(h, n) == Len(toList(h, n))

\* unlink(node).
unlink(h, node) ==
    LET p1 == h[node].parent
        h1 == IF p1 # None /\ h[p1].left = node THEN set_left(h, p1, None) ELSE h
        p2 == h1[node].parent
        h2 == IF p2 # None /\ h1[p2].right = node THEN set_right(h1, p2, None) ELSE h1
    IN  [h2 EXCEPT ![node].parent = None]

---------------------------------------------------------------------------
(* Expression trees as values, and their construction in the heap.  A tree *)
(* value is <<ConstantExpression, v>>, <<VariableExpression, name>>,       *)
(* <<NegateExpression, child>> or <<kind, left, right>>.                   *)

Leaves(consts, names) ==
    {<<ConstantExpression, v>> : v \in consts}
        \cup {<<VariableExpression, name>> : name \in names}

RECURSIVE TreeTable(_, _, _, _)
\* <<T1, ..., Tn>>, Ti the trees of exactly i nodes over the given leaves
\* and operator kinds.  The exponent of a Power is a leaf: evaluate is
\* modelled for natural exponents.
TreeTable(n, leaves, unary, binary) ==
    IF n = 1 THEN <<leaves>>
    ELSE LET T == TreeTable(n - 1, leaves, unary, binary)
             U == {<<k, c>> : k \in unary, c \in T[n - 1]}
             B == UNION {{<<k, l, r>> : k \in binary \ {PowerExpression},
                                        l \in T[i], r \in T[n - 1 - i]}
                         : i \in 1..(n - 2)}
             P == IF PowerExpression \in binary /\ n >= 3
                  THEN {<<PowerExpression, l, r>> : l \in T[n - 2], r \in leaves}
                  ELSE {}
         IN  Append(T, U \cup B \cup P)

TreesUpTo(n, leaves, unary, binary) ==
    LET T == TreeTable(n, leaves, unary, binary)
    IN  UNION {T[i] : i \in 1..n}

RECURSIVE Build(_, _)
\* The constructor calls that build tree value t, children first, as the
\* arguments of a constructor call are evaluated before the call.
Build(h, t) ==
    IF t[1] = ConstantExpression THEN NewConstant(h, t[2])
    ELSE IF t[1] = VariableExpression THEN NewVariable(h, t[2])
    ELSE IF t[1] \in UnaryExpression
    THEN LET c == Build(h, t[2]) IN NewUnary(c.h, t[1], c.r)
    ELSE LET l == Build(h, t[2])
             r == Build(l.h, t[3])
         IN  NewBinary(r.h, t[1], l.r, r.r)

RECURSIVE TreeOf(_, _)
\* The tree value of the subtree at n (kinds and payloads, by child links).
TreeOf(h, n) ==
    IF h[n].kind = ConstantExpression THEN <<ConstantExpression, h[n].value>>
    ELSE IF h[n].kind = VariableExpression THEN <<VariableExpression, h[n].identifier>>
    ELSE IF h[n].kind \in UnaryExpression THEN <<h[n].kind, TreeOf(h, h[n].left)>>
    ELSE <<h[n].kind, TreeOf(h, h[n].left), TreeOf(h, h[n].right)>>

---------------------------------------------------------------------------
(* Path addressing and the tracked clone.                                  *)

RECURSIVE path_to_root(_, _)
\* path_to_root(): the class names from the node up to the root (the code
\* joins them with dots).
path_to_root(h, n) ==
    IF h[n].parent = None THEN <<h[n].kind>>
    ELSE <<h[n].kind>> \o path_to_root(h, h[n].parent)

\* MathExpression.clone() after super().clone() returned result: the node
\* that carries a cloned_target equal to its own path records the clone in
\* its cloned_node.
MathExpression_clone(h, self, result) ==
    IF h[self].cloned_target # NoPath /\ path_to_root(h, self) = h[self].cloned_target
    THEN [h EXCEPT ![self].cloned_node = result]
    ELSE h

\* ConstantExpression.clone() without the copy of the value.
ConstantExpression_clone_no_value(h, self, result) == h

\* ConstantExpression.clone() after super().clone(): the value is copied.
ConstantExpression_clone(h, self, result) ==
    [h EXCEPT ![result].value = h[self].value]

\* VariableExpression.clone() after super().clone(): the identifier is
\* copied.
VariableExpression_clone(h, self, result) ==
    [h EXCEPT ![result].identifier = h[self].identifier]

RECURSIVE clone(_, _)
\* clone(): the tree node's clone (a new object of the same class, then
\* the clones of the children linked under it), followed by what the
\* overrides of the receiver's class add.
clone(h, self) ==
    LET res == NewNode(h, h[self].kind)
        l == IF h[self].left # None
             THEN LET c == clone(res.h, h[self].left)
                  IN  set_left(c.h, res.r, c.r)
             ELSE res.h
        r == IF l[self].right # None
             THEN LET c == clone(l, l[self].right)
                  IN  set_right(c.h, res.r, c.r)
             ELSE l
        m == MathExpression_clone(r, self, res.r)
    IN  [h |-> CASE h[self].kind = ConstantExpression ->
                        ConstantExpression_clone(m, self, res.r)
                 [] h[self].kind = VariableExpression ->
                        VariableExpression_clone(m, self, res.r)
                 [] OTHER -> m,
         r |-> res.r]

\* clone_from_root(node): ok is FALSE where the code raises "cloning root
\* hierarchy did not clone this node"; the heap is then the one the raise
\* leaves behind.
clone_from_root(h, self, node) ==
    LET h1 == [h EXCEPT ![self].cloned_node = None,
                        ![self].cloned_target = path_to_root(h, node)]
        c == clone(h1, get_root(h1, node))
    IN  IF c.h[self].cloned_node = None
        THEN [h |-> c.h, r |-> None, ok |-> FALSE]
        ELSE [h |-> [c.h EXCEPT ![self].cloned_node = None,
                                ![self].cloned_target = NoPath],
              r |-> c.h[self].cloned_node, ok |-> TRUE]

---------------------------------------------------------------------------
(* Rendering to text.  A text is a sequence of characters.                 *)

DigitChars == <<"0", "1", "2", "3", "4", "5", "6", "7", "8", "9">>

RECURSIVE Decimal(_)
\* "{}".format(v) of a natural number.
Decimal(v) ==
    IF v < 10 THEN <<DigitChars[v + 1]>>
    ELSE Decimal(v \div 10) \o <<DigitChars[(v % 10) + 1]>>

\* "{}".format(v) of an integer.
FormatInt(v) == IF v < 0 THEN <<"-">> \o Decimal(-v) ELSE Decimal(v)

\* The text a raised ValueError stands for; no rendering equals it.
ValueError == <<"ValueError">>

\* BinaryExpression.name.
name(k) ==
    CASE k = AddExpression -> "+"
      [] k = SubtractExpression -> "-"
      [] k = MultiplyExpression -> "*"
      [] k = DivideExpression -> "/"
      [] k = PowerExpression -> "^"
      [] k = EqualExpression -> "="
      [] k = NegateExpression -> "-"

\* get_priority().
get_priority(h, n) ==
    CASE h[n].kind = PowerExpression -> OOO_EXPONENT
      [] h[n].kind \in {MultiplyExpression, DivideExpression} -> OOO_MULTDIV
      [] h[n].kind \in {AddExpression, SubtractExpression} -> OOO_ADDSUB
      [] OTHER -> OOO_INVALID

\* self_parens().
self_parens(h, n) ==
    /\ h[n].parent # None
    /\ h[h[n].parent].kind \in BinaryExpression
    /\ get_priority(h, h[n].parent) > get_priority(h, n)

\* left_parens().
left_parens(h, n) ==
    /\ h[n].left # None
    /\ h[h[n].left].kind \in BinaryExpression
    /\ ~self_parens(h, h[n].left)
    /\ get_priority(h, h[n].left) < get_priority(h, n)

\* right_parens().
right_parens(h, n) ==
    /\ h[n].right # None
    /\ h[h[n].right].kind \in BinaryExpression
    /\ ~self_parens(h, h[n].right)
    /\ get_priority(h, h[n].right) <= get_priority(h, n)

\* BinaryExpression.__str__, ls and rs being str(left) and str(right).
BinaryExpression_str(h, n, ls, rs) ==
    IF h[n].left = None \/ h[n].right = None THEN ValueError
    ELSE LET l == IF left_parens(h, n) THEN <<"(">> \o ls \o <<")">> ELSE ls
             r == IF right_parens(h, n) THEN <<"(">> \o rs \o <<")">> ELSE rs
             out == l \o <<" ", name(h[n].kind), " ">> \o r
         IN  IF ls = ValueError \/ rs = ValueError THEN ValueError
             ELSE IF self_parens(h, n) THEN <<"(">> \o out \o <<")">> ELSE out

\* MultiplyExpression.__str__: the compact form of constant * variable and
\* constant * power.
MultiplyExpression_str(h, n, ls, rs) ==
    IF /\ h[n].left # None
       /\ h[h[n].left].kind = ConstantExpression
       /\ h[n].right # None
       /\ h[h[n].right].kind \in {VariableExpression, PowerExpression}
    THEN IF rs = ValueError THEN ValueError ELSE ls \o rs
    ELSE BinaryExpression_str(h, n, ls, rs)

\* PowerExpression.__str__.
PowerExpression_str(h, n, ls, rs) ==
    IF ls = ValueError \/ rs = ValueError THEN ValueError
    ELSE ls \o <<"^">> \o rs

\* NegateExpression.__str__, cs being str(get_child()).
NegateExpression_str(h, n, cs) ==
    IF cs = ValueError THEN ValueError ELSE <<"-">> \o cs

RECURSIVE str(_, _)
\* str(node), dispatched on the class; str(None) is "None".
str(h, n) ==
    IF n = None THEN <<"N", "o", "n", "e">>
    ELSE CASE h[n].kind = ConstantExpression -> FormatInt(h[n].value)
           [] h[n].kind = VariableExpression -> <<h[n].identifier>>
           [] h[n].kind = NegateExpression ->
                 NegateExpression_str(h, n, str(h, h[n].left))
           [] h[n].kind = MultiplyExpression ->
                 MultiplyExpression_str(h, n, str(h, h[n].left), str(h, h[n].right))
           [] h[n].kind = PowerExpression ->
                 PowerExpression_str(h, n, str(h, h[n].left), str(h, h[n].right))
           [] OTHER ->
                 BinaryExpression_str(h, n, str(h, h[n].left), str(h, h[n].right))

---------------------------------------------------------------------------
(* Evaluation.  A result is a number (an exact fraction n/d), the float    *)
(* nan, or the exception the call raises.                                  *)

RECURSIVE GCD(_, _)
GCD(a, b) == IF b = 0 THEN a ELSE GCD(b, a % b)

Abs(a) == IF a < 0 THEN -a ELSE a

\* The fraction n/d in lowest terms, d > 0.
Num(n, d) ==
    LET g == GCD(Abs(n), Abs(d))
        sgn == IF d < 0 THEN -1 ELSE 1
    IN  [t |-> "num", n |-> sgn * (n \div g), d |-> sgn * (d \div g)]

IntVal(v) == [t |-> "num", n |-> v, d |-> 1]

NaN == [t |-> "nan", n |-> 0, d |-> 0]

Raised(e) == [t |-> e, n |-> 0, d |-> 0]

IsRaised(v) == v.t \notin {"num", "nan"}

RECURSIVE IntPower(_, _)
IntPower(b, k) == IF k = 0 THEN 1 ELSE b * IntPower(b, k - 1)

\* numpy.power(one, two) for a natural exponent; nan ^ 0 is 1.  Negative
\* and fractional exponents are outside the model.
numpy_power(one, two) ==
    IF two.t = "nan" THEN (IF one = IntVal(1) THEN IntVal(1) ELSE NaN)
    ELSE IF two.d # 1 \/ two.n < 0 THEN Raised("OutOfModel")
    ELSE IF one.t = "nan" THEN (IF two.n = 0 THEN IntVal(1) ELSE NaN)
    ELSE Num(IntPower(one.n, two.n), IntPower(one.d, two.n))

\* operate(one, two) of the binary kinds.
operate(k, one, two) ==
    CASE k = EqualExpression -> Raised("Exception")
      [] k = PowerExpression -> numpy_power(one, two)
      [] k = DivideExpression ->
            IF two = IntVal(0) THEN NaN
            ELSE IF one.t = "nan" \/ two.t = "nan" THEN NaN
            ELSE Num(one.n * two.d, one.d * two.n)
      [] OTHER ->
            IF one.t = "nan" \/ two.t = "nan" THEN NaN
            ELSE CASE k = AddExpression -> Num(one.n * two.d + two.n * one.d, one.d * two.d)
                   [] k = SubtractExpression -> Num(one.n * two.d - two.n * one.d, one.d * two.d)
                   [] k = MultiplyExpression -> Num(one.n * two.n, one.d * two.d)

\* An evaluation context: none when evaluate is called without one, else
\* the dict vals.
Context(vals) == [none |-> FALSE, vals |-> vals]
NoContext == [none |-> TRUE, vals |-> <<>>]

\* VariableExpression.evaluate(context).
VariableExpression_evaluate(h, n, context) ==
    IF context.none \/ DOMAIN context.vals = {} THEN Raised("Exception")
    ELSE IF h[n].identifier \notin DOMAIN context.vals THEN Raised("KeyError")
    ELSE IF context.vals[h[n].identifier] # 0 THEN IntVal(context.vals[h[n].identifier])
    ELSE Raised("Exception")

RECURSIVE evaluate(_, _, _)
\* evaluate(context), dispatched on the class; the left operand is
\* evaluated first, and the first exception raised is the outcome.
evaluate(h, n, context) ==
    IF n = None THEN Raised("AttributeError")
    ELSE CASE h[n].kind = ConstantExpression -> IntVal(h[n].value)
           [] h[n].kind = VariableExpression -> VariableExpression_evaluate(h, n, context)
           [] h[n].kind = NegateExpression ->
                 LET c == evaluate(h, h[n].left, context)
                 IN  IF c.t = "num" THEN Num(-c.n, c.d) ELSE c
           [] OTHER ->
                 LET l == evaluate(h, h[n].left, context)
                 IN  IF IsRaised(l) THEN l
                     ELSE LET r == evaluate(h, h[n].right, context)
                          IN  IF IsRaised(r) THEN r ELSE operate(h[n].kind, l, r)

\* The contexts that bind every name of names to a value of 0..MaxBind.
Bindings(names) == {Context(f) : f \in [names -> 0..MaxBind]}

\* Every context evaluate can be given: none, the empty dict, and the dicts
\* that bind some of the names.
Contexts(names) == {NoContext} \cup UNION {Bindings(ns) : ns \in SUBSET names}

\* The names a context binds.
Bound(context) == IF context.none THEN {} ELSE DOMAIN context.vals

---------------------------------------------------------------------------
(* Differentiation.  differentiate builds new nodes and, in the product    *)
(* and quotient rules, hands the operands themselves to the new nodes'     *)
(* constructors.  The outcome is the heap, the node returned and the       *)
(* exception raised, "" when none is.                                      *)

Derived(h, r) == [h |-> h, r |-> r, raised |-> ""]
Failed(h, e) == [h |-> h, r |-> None, raised |-> e]

\* MathExpression.differentiate, which ConstantExpression inherits.
MathExpression_differentiate(h, n) == Failed(h, "Exception")

\* VariableExpression.differentiate(by_variable)
VariableExpression_differentiate(h, n, by_variable) ==
    LET c == NewConstant(h, IF by_variable = h[n].identifier THEN 1 ELSE 0)
    IN  Derived(c.h, c.r)

\* NegateExpression.differentiate, dc the derivative of the child.
NegateExpression_differentiate(dc) ==
    LET f == NewUnary(dc.h, NegateExpression, dc.r)
    IN  Derived(f.h, f.r)

\* AddExpression.differentiate, dl and dr the derivatives of the operands.
AddExpression_differentiate(dl, dr) ==
    LET f == NewBinary(dr.h, AddExpression, dl.r, dr.r)
    IN  Derived(f.h, f.r)

\* SubtractExpression.differentiate
SubtractExpression_differentiate(dl, dr) ==
    LET f == NewBinary(dr.h, AddExpression, dl.r, dr.r)
    IN  Derived(f.h, f.r)

\* The first product of MultiplyExpression.differentiate: self.left times
\* the derivative of the right operand.
LeftTimesDerivative(h, n, dr) == NewBinary(dr.h, MultiplyExpression, h[n].left, dr.r)

\* MultiplyExpression.differentiate: ghp the first product, dl the
\* derivative of the left operand taken after it.
MultiplyExpression_differentiate(h, n, ghp, dl) ==
    LET gph == NewBinary(dl.h, MultiplyExpression, dl.r, h[n].right)
        f == NewBinary(gph.h, AddExpression, ghp.r, gph.r)
    IN  Derived(f.h, f.r)

\* gprimeh of DivideExpression.differentiate.
DerivativeTimesRight(h, n, dl) == NewBinary(dl.h, MultiplyExpression, dl.r, h[n].right)

\* DivideExpression.differentiate: gprimeh the first product, dr the
\* derivative of the right operand taken after it.
DivideExpression_differentiate(h, n, gprimeh, dr) ==
    LET ghprime == NewBinary(dr.h, MultiplyExpression, h[n].left, dr.r)
        two == NewConstant(ghprime.h, 2)
        hsquare == NewBinary(two.h, PowerExpression, h[n].right, two.r)
        diff == NewBinary(hsquare.h, SubtractExpression, gprimeh.r, ghprime.r)
        f == NewBinary(diff.h, DivideExpression, diff.r, hsquare.r)
    IN  Derived(f.h, f.r)

\* PowerExpression.differentiate
PowerExpression_differentiate(h, n) == Failed(h, "Exception")

RECURSIVE differentiate(_, _, _)
\* differentiate(by_variable), dispatched on the class.  Arguments are
\* evaluated left to right and the first exception ends the call; a
\* missing operand is None, which has no differentiate.
differentiate(h, n, by_variable) ==
    IF n = None THEN Failed(h, "AttributeError")
    ELSE CASE h[n].kind = VariableExpression ->
                 VariableExpression_differentiate(h, n, by_variable)
           [] h[n].kind = NegateExpression ->
                 LET dc == differentiate(h, h[n].left, by_variable)
                 IN  IF dc.raised # "" THEN dc ELSE NegateExpression_differentiate(dc)
           [] h[n].kind \in {AddExpression, SubtractExpression} ->
                 LET dl == differentiate(h, h[n].left, by_variable)
                 IN  IF dl.raised # "" THEN dl
                     ELSE LET dr == differentiate(dl.h, h[n].right, by_variable)
                          IN  IF dr.raised # "" THEN dr
                              ELSE IF h[n].kind = AddExpression
                              THEN AddExpression_differentiate(dl, dr)
                              ELSE SubtractExpression_differentiate(dl, dr)
           [] h[n].kind = MultiplyExpression ->
                 LET dr == differentiate(h, h[n].right, by_variable)
                 IN  IF dr.raised # "" THEN dr
                     ELSE LET ghp == LeftTimesDerivative(h, n, dr)
                              dl == differentiate(ghp.h, h[n].left, by_variable)
                          IN  IF dl.raised # "" THEN dl
                              ELSE MultiplyExpression_differentiate(h, n, ghp, dl)
           [] h[n].kind = DivideExpression ->
                 LET dl == differentiate(h, h[n].left, by_variable)
                 IN  IF dl.raised # "" THEN dl
                     ELSE LET gprimeh == DerivativeTimesRight(h, n, dl)
                              dr == differentiate(gprimeh.h, h[n].right, by_variable)
                          IN  IF dr.raised # "" THEN dr
                              ELSE DivideExpression_differentiate(h, n, gprimeh, dr)
           [] h[n].kind = PowerExpression -> PowerExpression_differentiate(h, n)
           [] OTHER -> MathExpression_differentiate(h, n)

RECURSIVE Constructed(_, _)
\* The most objects differentiate constructs on the tree at n.
Constructed(h, n) ==
    IF n = None THEN 0
    ELSE CASE h[n].kind = VariableExpression -> 1
           [] h[n].kind = NegateExpression -> 1 + Constructed(h, h[n].left)
           [] h[n].kind \in {AddExpression, SubtractExpression} ->
                 1 + Constructed(h, h[n].left) + Constructed(h, h[n].right)
           [] h[n].kind = MultiplyExpression ->
                 3 + Constructed(h, h[n].left) + Constructed(h, h[n].right)
           [] h[n].kind = DivideExpression ->
                 6 + Constructed(h, h[n].left) + Constructed(h, h[n].right)
           [] OTHER -> 0

---------------------------------------------------------------------------
(* Type ids.                                                               *)

\* The table MathTypeKeys.
MathTypeKeys ==
    "empty" :> 0 @@ "negate" :> 1 @@ "equal" :> 2 @@ "add" :> 3 @@
    "subtract" :> 4 @@ "multiply" :> 5 @@ "divide" :> 6 @@ "power" :> 7 @@
    "constant_0" :> 16 @@ "constant_1" :> 17 @@ "constant_2" :> 18 @@
    "constant_3" :> 19 @@ "constant_4" :> 20 @@ "constant_5" :> 21 @@
    "constant_6" :> 22 @@ "constant_7" :> 23 @@ "constant_8" :> 24 @@
    "constant_9" :> 25 @@ "variable" :> 26 @@ "variable_a" :> 27 @@
    "variable_b" :> 28 @@ "variable_c" :> 29 @@ "variable_d" :> 30 @@
    "variable_e" :> 31 @@ "variable_f" :> 32 @@ "variable_g" :> 33 @@
    "variable_h" :> 34 @@ "variable_i" :> 35 @@ "variable_j" :> 36 @@
    "variable_k" :> 37 @@ "variable_l" :> 38 @@ "variable_m" :> 39 @@
    "variable_n" :> 40 @@ "variable_o" :> 41 @@ "variable_p" :> 42 @@
    "variable_q" :> 43 @@ "variable_r" :> 44 @@ "variable_s" :> 45 @@
    "variable_t" :> 46 @@ "variable_u" :> 47 @@ "variable_v" :> 48 @@
    "variable_w" :> 49 @@ "variable_x" :> 50 @@ "variable_y" :> 51 @@
    "variable_z" :> 52

\* The maximum value in type keys.
MathTypeKeysMax ==
    CHOOSE m \in {MathTypeKeys[k] : k \in DOMAIN MathTypeKeys} :
        \A k \in DOMAIN MathTypeKeys : MathTypeKeys[k] <= m

\* MathTypeKeys[key]: the id, or the KeyError of a key the table lacks.
Lookup(key) ==
    IF key \in DOMAIN MathTypeKeys
    THEN [raised |-> "", id |-> MathTypeKeys[key]]
    ELSE [raised |-> "KeyError", id |-> -1]

\* The characters of an identifier.
Characters(identifier) ==
    CASE identifier = "ab" -> <<"a", "b">>
      [] identifier = "Zed" -> <<"Z", "e", "d">>
      [] identifier = "_t" -> <<"_", "t">>
      [] OTHER -> <<identifier>>

\* str.lower() of one character.
LowerCharacter(c) ==
    CASE c = "A" -> "a"
      [] c = "B" -> "b"
      [] c = "C" -> "c"
      [] c = "D" -> "d"
      [] c = "E" -> "e"
      [] c = "F" -> "f"
      [] c = "G" -> "g"
      [] c = "H" -> "h"
      [] c = "I" -> "i"
      [] c = "J" -> "j"
      [] c = "K" -> "k"
      [] c = "L" -> "l"
      [] c = "M" -> "m"
      [] c = "N" -> "n"
      [] c = "O" -> "o"
      [] c = "P" -> "p"
      [] c = "Q" -> "q"
      [] c = "R" -> "r"
      [] c = "S" -> "s"
      [] c = "T" -> "t"
      [] c = "U" -> "u"
      [] c = "V" -> "v"
      [] c = "W" -> "w"
      [] c = "X" -> "x"
      [] c = "Y" -> "y"
      [] c = "Z" -> "z"
      [] OTHER -> c

\* str.lower()
lower(cs) == [i \in 1..Len(cs) |-> LowerCharacter(cs[i])]

\* f"constant_{d}" for a digit d.
ConstantKey(d) ==
    CASE d = 0 -> "constant_0"
      [] d = 1 -> "constant_1"
      [] d = 2 -> "constant_2"
      [] d = 3 -> "constant_3"
      [] d = 4 -> "constant_4"
      [] d = 5 -> "constant_5"
      [] d = 6 -> "constant_6"
      [] d = 7 -> "constant_7"
      [] d = 8 -> "constant_8"
      [] d = 9 -> "constant_9"

\* f"variable_{c}" for a character c; the keys of characters that are not
\* lower-case letters are all absent from the table.
VariableKey(c) ==
    CASE c = "a" -> "variable_a"
      [] c = "b" -> "variable_b"
      [] c = "c" -> "variable_c"
      [] c = "d" -> "variable_d"
      [] c = "e" -> "variable_e"
      [] c = "f" -> "variable_f"
      [] c = "g" -> "variable_g"
      [] c = "h" -> "variable_h"
      [] c = "i" -> "variable_i"
      [] c = "j" -> "variable_j"
      [] c = "k" -> "variable_k"
      [] c = "l" -> "variable_l"
      [] c = "m" -> "variable_m"
      [] c = "n" -> "variable_n"
      [] c = "o" -> "variable_o"
      [] c = "p" -> "variable_p"
      [] c = "q" -> "variable_q"
      [] c = "r" -> "variable_r"
      [] c = "s" -> "variable_s"
      [] c = "t" -> "variable_t"
      [] c = "u" -> "variable_u"
      [] c = "v" -> "variable_v"
      [] c = "w" -> "variable_w"
      [] c = "x" -> "variable_x"
      [] c = "y" -> "variable_y"
      [] c = "z" -> "variable_z"
      [] OTHER -> "variable_?"

\* The leading digit of a decimal numeral.
RECURSIVE LeadingDigit(_)
LeadingDigit(v) == IF v < 10 THEN v ELSE LeadingDigit(v \div 10)

\* ConstantExpression.type_id with the first significant digit of the value.
ConstantExpression_type_id_first_digit(h, n) ==
    Lookup(ConstantKey(LeadingDigit(Abs(h[n].value))))

\* ConstantExpression.type_id: the key of int(value % 10), a remainder
\* that is never negative.
ConstantExpression_type_id(h, n) == Lookup(ConstantKey(h[n].value % 10))

\* VariableExpression.type_id: the key of identifier.lower()[0], the key
\* "variable" without an identifier.
VariableExpression_type_id(h, n) ==
    IF h[n].identifier = "" THEN Lookup("variable")
    ELSE Lookup(VariableKey(lower(Characters(h[n].identifier))[1]))

\* type_id of the node's class.
type_id(h, n) ==
    CASE h[n].kind = ConstantExpression -> ConstantExpression_type_id(h, n)
      [] h[n].kind = VariableExpression -> VariableExpression_type_id(h, n)
      [] h[n].kind = NegateExpression -> Lookup("negate")
      [] h[n].kind = AbsExpression -> Lookup("abs")
      [] h[n].kind = SgnExpression -> Lookup("sgn")
      [] h[n].kind = EqualExpression -> Lookup("equal")
      [] h[n].kind = AddExpression -> Lookup("add")
      [] h[n].kind = SubtractExpression -> Lookup("subtract")
      [] h[n].kind = MultiplyExpression -> Lookup("multiply")
      [] h[n].kind = DivideExpression -> Lookup("divide")
      [] h[n].kind = PowerExpression -> Lookup("power")

---------------------------------------------------------------------------
(* Rendering to MathML.  The markup is a sequence of pieces: "<", a tag    *)
(* name, ">", "</", the characters of the content.                         *)

\* self.classes: the node's identifier, set by the constructor.
classes(h, n) == <<FormatInt(h[n].id)>>

RECURSIVE JoinClasses(_)
\* " ".join(classes)
JoinClasses(cs) ==
    IF cs = <<>> THEN <<>>
    ELSE IF Len(cs) = 1 THEN cs[1]
    ELSE cs[1] \o <<" ">> \o JoinClasses(Tail(cs))

\* make_ml_tag(tag, content, classes)
make_ml_tag(tag, content, cs) ==
    <<"<", tag>>
        \o (IF cs = <<>> THEN <<>> ELSE <<" class='">> \o JoinClasses(cs) \o <<"'">>)
        \o <<">">> \o content \o <<"</", tag, ">">>

\* get_ml_name(): the operator as the markup shows it.
get_ml_name(k) ==
    CASE k = MultiplyExpression -> "&#183;"
      [] k = DivideExpression -> "&#247;"
      [] OTHER -> name(k)

\* BinaryExpression.to_math_ml(), lm and rm the markup of the children:
\* the right child is looked at first, the left only if the right needs
\* no parentheses.
BinaryExpression_to_math_ml(h, n, lm, rm) ==
    LET op_ml == make_ml_tag("mo", <<get_ml_name(h[n].kind)>>, <<>>)
    IN  IF right_parens(h, n)
        THEN make_ml_tag("mrow",
                         lm \o op_ml \o make_ml_tag("mo", <<"(">>, <<>>) \o rm
                            \o make_ml_tag("mo", <<")">>, <<>>),
                         classes(h, n))
        ELSE IF left_parens(h, n)
        THEN make_ml_tag("mrow",
                         make_ml_tag("mo", <<"(">>, <<>>) \o lm
                            \o make_ml_tag("mo", <<")">>, <<>>) \o op_ml \o rm,
                         classes(h, n))
        ELSE make_ml_tag("mrow", lm \o op_ml \o rm, classes(h, n))

\* MultiplyExpression.to_math_ml(): the compact form of Constant * Variable
\* and Constant * Power.
MultiplyExpression_to_math_ml(h, n, lm, rm) ==
    IF /\ h[n].left # None /\ h[h[n].left].kind = ConstantExpression
       /\ h[n].right # None
       /\ h[h[n].right].kind \in {VariableExpression, PowerExpression}
    THEN lm \o rm
    ELSE BinaryExpression_to_math_ml(h, n, lm, rm)

\* PowerExpression.to_math_ml()
PowerExpression_to_math_ml(h, n, lm, rm) ==
    LET left_ml == IF h[h[n].left].kind = MultiplyExpression
                   THEN make_ml_tag("mrow", lm, classes(h, n))
                   ELSE lm
    IN  make_ml_tag("msup", left_ml \o rm, classes(h, n))

\* VariableExpression.to_math_ml()
VariableExpression_to_math_ml(h, n) ==
    IF h[n].identifier = "" THEN <<>> ELSE make_ml_tag("mi", <<h[n].identifier>>, <<>>)

RECURSIVE to_math_ml(_, _)
\* to_math_ml() of the node's class; the classes that do not override it
\* (Constant, Negate) give the empty markup of MathExpression.to_math_ml.
to_math_ml(h, n) ==
    IF h[n].kind = VariableExpression THEN VariableExpression_to_math_ml(h, n)
    ELSE IF h[n].kind \in BinaryExpression
    THEN LET rm == to_math_ml(h, h[n].right)
             lm == to_math_ml(h, h[n].left)
         IN  CASE h[n].kind = MultiplyExpression ->
                      MultiplyExpression_to_math_ml(h, n, lm, rm)
               [] h[n].kind = PowerExpression ->
                      PowerExpression_to_math_ml(h, n, lm, rm)
               [] OTHER -> BinaryExpression_to_math_ml(h, n, lm, rm)
    ELSE <<>>

---------------------------------------------------------------------------
(* Parsing: the tokenizer and the precedence-climbing parser.  A token is  *)
(* a number, an identifier or one of + - * / ^ = ( ).                      *)

Digits == {"0", "1", "2", "3", "4", "5", "6", "7", "8", "9"}

Operators == {"+", "-", "*", "/", "^", "=", "(", ")"}

DigitValue(c) == CHOOSE v \in 0..9 : DigitChars[v + 1] = c

NumberToken(v) == [t |-> "num", v |-> v, s |-> ""]
IdentifierToken(c) == [t |-> "id", v |-> 0, s |-> c]
OperatorToken(c) == [t |-> "op", v |-> 0, s |-> c]

RECURSIVE Tokens(_, _, _)
\* The tokens of text from position i on, acc being the tokens so far: a
\* run of digits is one number, blanks separate, any other character that
\* is no operator is an identifier.
Tokens(text, i, acc) ==
    IF i > Len(text) THEN acc
    ELSE LET c == text[i]
             last == IF acc = <<>> THEN OperatorToken(" ") ELSE acc[Len(acc)]
         IN  IF c = " " THEN Tokens(text, i + 1, acc)
             ELSE IF c \in Digits
             THEN IF last.t = "num" /\ i > 1 /\ text[i - 1] \in Digits
                  THEN Tokens(text, i + 1,
                              [acc EXCEPT ![Len(acc)] =
                                  NumberToken(last.v * 10 + DigitValue(c))])
                  ELSE Tokens(text, i + 1, Append(acc, NumberToken(DigitValue(c))))
             ELSE IF c \in Operators
             THEN Tokens(text, i + 1, Append(acc, OperatorToken(c)))
             ELSE Tokens(text, i + 1, Append(acc, IdentifierToken(c)))

RECURSIVE ImplicitMultiply(_, _)
\* A number or ")" followed at once by an identifier or "(" is a product:
\* the "*" is put between them.
ImplicitMultiply(toks, i) ==
    IF i > Len(toks) THEN <<>>
    ELSE LET a == toks[i]
             rest == ImplicitMultiply(toks, i + 1)
         IN  IF /\ i < Len(toks)
                /\ (a.t = "num" \/ (a.t = "op" /\ a.s = ")"))
                /\ (toks[i + 1].t = "id"
                        \/ (toks[i + 1].t = "op" /\ toks[i + 1].s = "("))
             THEN <<a, OperatorToken("*")>> \o rest
             ELSE <<a>> \o rest

\* tokenize(text).
tokenize(text) == ImplicitMultiply(Tokens(text, 1, <<>>), 1)

RECURSIVE Depths(_, _, _)
\* The parentheses of toks balance: none closes what was not opened and
\* all are closed at the end.
Depths(toks, i, depth) ==
    IF depth < 0 THEN FALSE
    ELSE IF i > Len(toks) THEN depth = 0
    ELSE IF toks[i].t = "op" /\ toks[i].s = "(" THEN Depths(toks, i + 1, depth + 1)
    ELSE IF toks[i].t = "op" /\ toks[i].s = ")" THEN Depths(toks, i + 1, depth - 1)
    ELSE Depths(toks, i + 1, depth)

Parsed(tree, pos) == [ok |-> TRUE, tree |-> tree, pos |-> pos, err |-> ""]
ParseError(err, pos) == [ok |-> FALSE, tree |-> <<>>, pos |-> pos, err |-> err]

\* The token at i is the operator c.
IsOp(toks, i, c) == i <= Len(toks) /\ toks[i].t = "op" /\ toks[i].s = c

AddSubKind(c) == IF c = "+" THEN AddExpression ELSE SubtractExpression
MultDivKind(c) == IF c = "*" THEN MultiplyExpression ELSE DivideExpression

RECURSIVE ParseLevel(_, _, _, _)
\* Precedence climbing over the ranks ADDSUB < MULTDIV < EXPONENT < PARENS,
\* one grammar level per mode; left is the operand parsed so far at the
\* levels that loop.  + - * / associate to the left; unary minus binds
\* tighter than the binary operators and looser than ^; ^ is taken to
\* associate to the left, the reading under which a ^ b ^ c as rendered
\* from Power(Power(a, b), c) parses back to the same tree.
ParseLevel(mode, toks, i, left) ==
    CASE mode = "expr" ->
            LET a == ParseLevel("add", toks, i, <<>>)
            IN  IF a.ok /\ IsOp(toks, a.pos, "=")
                THEN LET b == ParseLevel("add", toks, a.pos + 1, <<>>)
                     IN  IF b.ok
                         THEN Parsed(<<EqualExpression, a.tree, b.tree>>, b.pos)
                         ELSE b
                ELSE a
      [] mode = "add" ->
            LET m == ParseLevel("mul", toks, i, <<>>)
            IN  IF m.ok THEN ParseLevel("addrest", toks, m.pos, m.tree) ELSE m
      [] mode = "addrest" ->
            IF IsOp(toks, i, "+") \/ IsOp(toks, i, "-")
            THEN LET m == ParseLevel("mul", toks, i + 1, <<>>)
                 IN  IF m.ok
                     THEN ParseLevel("addrest", toks, m.pos,
                                     <<AddSubKind(toks[i].s), left, m.tree>>)
                     ELSE m
            ELSE Parsed(left, i)
      [] mode = "mul" ->
            LET u == ParseLevel("unary", toks, i, <<>>)
            IN  IF u.ok THEN ParseLevel("mulrest", toks, u.pos, u.tree) ELSE u
      [] mode = "mulrest" ->
            IF IsOp(toks, i, "*") \/ IsOp(toks, i, "/")
            THEN LET u == ParseLevel("unary", toks, i + 1, <<>>)
                 IN  IF u.ok
                     THEN ParseLevel("mulrest", toks, u.pos,
                                     <<MultDivKind(toks[i].s), left, u.tree>>)
                     ELSE u
            ELSE Parsed(left, i)
      [] mode = "unary" ->
            IF IsOp(toks, i, "-")
            THEN LET u == ParseLevel("unary", toks, i + 1, <<>>)
                 IN  IF u.ok THEN Parsed(<<NegateExpression, u.tree>>, u.pos) ELSE u
            ELSE LET a == ParseLevel("atom", toks, i, <<>>)
                 IN  IF a.ok THEN ParseLevel("powrest", toks, a.pos, a.tree) ELSE a
      [] mode = "powrest" ->
            IF IsOp(toks, i, "^")
            THEN LET f == ParseLevel("exponent", toks, i + 1, <<>>)
                 IN  IF f.ok
                     THEN ParseLevel("powrest", toks, f.pos,
                                     <<PowerExpression, left, f.tree>>)
                     ELSE f
            ELSE Parsed(left, i)
      [] mode = "exponent" ->
            IF IsOp(toks, i, "-")
            THEN LET f == ParseLevel("exponent", toks, i + 1, <<>>)
                 IN  IF f.ok THEN Parsed(<<NegateExpression, f.tree>>, f.pos) ELSE f
            ELSE ParseLevel("atom", toks, i, <<>>)
      [] mode = "atom" ->
            IF i > Len(toks) THEN ParseError("UnexpectedToken", i)
            ELSE IF toks[i].t = "num"
            THEN Parsed(<<ConstantExpression, toks[i].v>>, i + 1)
            ELSE IF toks[i].t = "id"
            THEN IF IsOp(toks, i + 1, "(")
                 THEN ParseError("UnknownFunction", i)
                 ELSE Parsed(<<VariableExpression, toks[i].s>>, i + 1)
            ELSE IF toks[i].s = "("
            THEN LET e == ParseLevel("expr", toks, i + 1, <<>>)
                 IN  IF ~e.ok THEN e
                     ELSE IF IsOp(toks, e.pos, ")") THEN Parsed(e.tree, e.pos + 1)
                     ELSE ParseError("UnexpectedToken", e.pos)
            ELSE ParseError("UnexpectedToken", i)

\* parse(text): the tree value of the text, or the parse error.
parse(text) ==
    LET toks == tokenize(text)
    IN  IF toks = <<>> THEN ParseError("EmptyInput", 1)
        ELSE IF ~Depths(toks, 1, 0) THEN ParseError("UnbalancedParentheses", 1)
        ELSE LET e == ParseLevel("expr", toks, 1, <<>>)
             IN  IF e.ok /\ e.pos <= Len(toks)
                 THEN ParseError("UnexpectedToken", e.pos)
                 ELSE e

---------------------------------------------------------------------------
(* The commutative swap rule and the change record.                        *)

\* can_apply_to with the test of the flag inverted: the preferred shapes
\* are kept from commuting when preferred is set.
can_apply_to_flag_inverted(h, preferred, node) ==
    IF h[node].kind = AddExpression THEN TRUE
    ELSE IF h[node].kind # MultiplyExpression THEN FALSE
    ELSE IF preferred = TRUE
    THEN LET l == h[node].left
             r == h[node].right
         IN  ~ \/ (h[l].kind = ConstantExpression /\ h[r].kind = VariableExpression)
               \/ /\ h[r].kind = PowerExpression
                  /\ h[h[r].left].kind = VariableExpression
                  /\ h[h[r].right].kind = ConstantExpression
    ELSE TRUE

\* CommutativeSwapRule.can_apply_to(node), for a rule built with the given
\* preferred flag.
can_apply_to(h, preferred, node) ==
    IF h[node].kind = AddExpression THEN TRUE
    ELSE IF h[node].kind # MultiplyExpression THEN FALSE
    ELSE IF preferred = FALSE
    THEN LET l == h[node].left
             r == h[node].right
             left_const == l # None /\ h[l].kind = ConstantExpression
             right_var == r # None /\ h[r].kind = VariableExpression
         IN  IF left_const /\ right_var THEN FALSE
             ELSE IF r # None /\ h[r].kind = PowerExpression
                     /\ h[r].left # None /\ h[h[r].left].kind = VariableExpression
                     /\ h[r].right # None /\ h[h[r].right].kind = ConstantExpression
             THEN FALSE
             ELSE TRUE
    ELSE TRUE

\* set_changed().
set_changed(h, n) == [h EXCEPT ![n].changed = TRUE]

\* The change record without a rewrite.
NoChange == [before |-> None, after |-> None, root |-> None]

\* BaseRule.apply_to(node): the change record of a rule about to rewrite
\* node.
BaseRule_apply_to(h, node) == [NoChange EXCEPT !.before = node]

\* change.done(node): the subtree after the rewrite and the root it now
\* hangs from.
done(h, change, node) == [change EXCEPT !.after = node, !.root = get_root(h, node)]

\* apply_to that puts a on both sides (set_left(a) for set_left(b)).
apply_to_left_kept(h, node) ==
    LET change == BaseRule_apply_to(h, node)
        a == h[node].left
        h1 == set_right(h, node, a)
        h2 == set_left(h1, node, a)
        h3 == set_changed(h2, node)
    IN  [h |-> h3, r |-> done(h3, change, node)]

\* apply_to that unlinks the node from its parent before the swap.
apply_to_unlinked(h, node) ==
    LET change == BaseRule_apply_to(h, node)
        a == h[node].left
        b == h[node].right
        h0 == unlink(h, node)
        h1 == set_right(h0, node, a)
        h2 == set_left(h1, node, b)
        h3 == set_changed(h2, node)
    IN  [h |-> h3, r |-> done(h3, change, node)]

\* apply_to without the set_changed() call.
apply_to_unmarked(h, node) ==
    LET change == BaseRule_apply_to(h, node)
        a == h[node].left
        b == h[node].right
        h1 == set_right(h, node, a)
        h2 == set_left(h1, node, b)
    IN  [h |-> h2, r |-> done(h2, change, node)]

\* CommutativeSwapRule.apply_to(node), can_apply_to(node) holding.
apply_to(h, node) ==
    LET change == BaseRule_apply_to(h, node)
        a == h[node].left
        b == h[node].right
        h1 == set_right(h, node, a)
        h2 == set_left(h1, node, b)
        h3 == set_changed(h2, node)
    IN  [h |-> h3, r |-> done(h3, change, node)]

---------------------------------------------------------------------------
(* Rule application and tracked cloning on an expression tree.             *)
(* heap is the program's objects, pre the heap before the last call, op    *)
(* the last call with its arguments and result.                            *)

NoOp ==
    [name |-> "init", self |-> None, node |-> None, preferred |-> FALSE,
     ok |-> TRUE, result |-> None, change |-> NoChange,
     fresh |-> {}, snap |-> EmptyHeap, touched |-> {},
     text |-> <<>>, context |-> NoContext, value |-> NaN, parsed |-> NaN,
     w |-> <<>>, by_variable |-> "", type_id |-> -1, raised |-> "",
     arg |-> 0, factors |-> <<>>, args |-> <<>>, ret |-> <<>>,
     board |-> <<>>, player |-> 1, action |-> -1, expression_str |-> <<>>,
     ended |-> IntVal(0), valid |-> <<>>]

\* The input trees of the rule and clone calls.
InputTrees ==
    TreesUpTo(MaxSize, Leaves(1..MaxConst, VarNames), UnaryExpression,
              {AddExpression, SubtractExpression, MultiplyExpression,
               DivideExpression, PowerExpression})

\* The tree built by the constructors (or the parser), nothing else yet.
Init ==
    /\ \E t \in InputTrees : heap = Build(EmptyHeap, t).h
    /\ pre = heap
    /\ op = NoOp
    /\ steps = 0

\* The root of the input tree: the last object Build constructs.
InputRoot(h) == CHOOSE n \in Used(h) : h[n].parent = None

\* rule.apply_to(node) on a node of the caller's tree, for a rule with
\* either preferred flag.
ApplyTo ==
    /\ op.name = "init"
    /\ \E node \in Used(heap), preferred \in BOOLEAN :
          /\ can_apply_to(heap, preferred, node)
          /\ LET res == apply_to(heap, node)
             IN  /\ heap' = res.h
                 /\ op' = [NoOp EXCEPT !.name = "apply_to", !.node = node,
                                       !.preferred = preferred, !.change = res.r]
    /\ pre' = heap
    /\ steps' = steps + 1

\* rule.can_apply_to(node) on a node of the tree, for either flag.
CanApplyTo ==
    /\ op.name = "init"
    /\ \E node \in Used(heap), preferred \in BOOLEAN :
          op' = [NoOp EXCEPT !.name = "can_apply_to", !.node = node,
                             !.preferred = preferred,
                             !.ok = can_apply_to(heap, preferred, node)]
    /\ heap' = heap
    /\ pre' = heap
    /\ steps' = steps + 1

\* The rule step without rootClone(): the rule is applied to the focus
\* token itself.
GetNextStateRule_in_place ==
    /\ op.name = "init"
    /\ HasRoom(heap, MaxSize)
    /\ \E token \in Used(heap), preferred \in BOOLEAN :
          /\ can_apply_to(heap, preferred, token)
          /\ LET res == apply_to(heap, token)
             IN  /\ heap' = res.h
                 /\ op' = [NoOp EXCEPT !.name = "getNextState", !.node = token,
                                       !.preferred = preferred, !.result = token,
                                       !.change = res.r]
    /\ pre' = heap
    /\ steps' = steps + 1

\* The rule step of MathGame.getNextState: the rule is applied to the root
\* clone of the focus token, and the board is encoded from the root of
\* change.end.
GetNextStateRule ==
    /\ op.name = "init"
    /\ HasRoom(heap, MaxSize)
    /\ \E token \in Used(heap), preferred \in BOOLEAN :
          /\ can_apply_to(heap, preferred, token)
          /\ LET c == clone_from_root(heap, token, token)
                 res == apply_to(c.h, c.r)
             IN  /\ c.ok
                 /\ heap' = res.h
                 /\ op' = [NoOp EXCEPT !.name = "getNextState", !.node = token,
                                       !.preferred = preferred, !.result = c.r,
                                       !.change = res.r]
    /\ pre' = heap
    /\ steps' = steps + 1

\* self.clone_from_root(node) for two nodes of the tree (node defaults to
\* self).
CloneFromRoot ==
    /\ op.name = "init"
    /\ HasRoom(heap, MaxSize)
    /\ \E self \in Used(heap), node \in Used(heap) :
          LET c == clone_from_root(heap, self, node)
          IN  /\ heap' = c.h
              /\ op' = [NoOp EXCEPT !.name = "clone_from_root", !.self = self,
                                    !.node = node, !.ok = c.ok, !.result = c.r]
    /\ pre' = heap
    /\ steps' = steps + 1

Next == CanApplyTo \/ ApplyTo \/ GetNextStateRule

Spec == Init /\ [][Next]_vars

\* Tracked cloning on its own: one clone_from_root call on a tree.
NextClone == CloneFromRoot

SpecClone == Init /\ [][NextClone]_vars

---------------------------------------------------------------------------
(* Properties of rule application and tracked cloning.                     *)

\* The objects that exist after the last call and did not before it.
Fresh == Used(heap) \ Used(pre)

\* The root of the tree the last call was given a node of, before the call.
OriginalRoot == get_root(pre, op.node)

RECURSIVE SidePath(_, _)
\* The sides taken from the root down to n.
SidePath(h, n) ==
    IF h[n].parent = None THEN <<>>
    ELSE Append(SidePath(h, h[n].parent), get_side(h, h[n].parent, n))

\* The canonical shapes of a term: Constant * Variable and
\* Constant * (Variable ^ Constant).
Canonical(h, n) ==
    /\ h[n].kind = MultiplyExpression
    /\ h[h[n].left].kind = ConstantExpression
    /\ \/ h[h[n].right].kind = VariableExpression
       \/ /\ h[h[n].right].kind = PowerExpression
          /\ h[h[h[n].right].left].kind = VariableExpression
          /\ h[h[h[n].right].right].kind = ConstantExpression

\* The right child is Variable ^ Constant.
RightIsVariablePower(h, n) ==
    /\ h[h[n].right].kind = PowerExpression
    /\ h[h[h[n].right].left].kind = VariableExpression
    /\ h[h[h[n].right].right].kind = ConstantExpression

\* C1: after change = CommutativeSwap.apply_to(n), n a node the rule can be
\* applied to, the tree at change.root evaluates to what the tree's root
\* evaluated to before the call, under every binding of the variables to
\* 0..MaxBind.
C1_RuleValuePreserved ==
    op.name = "apply_to" =>
        \A context \in Bindings(VarNames) :
            evaluate(heap, op.change.root, context)
                = evaluate(pre, OriginalRoot, context)

\* C1 witness: a swap below the root of two operands of different value,
\* in a tree that evaluates to a number.
C1_Witness ==
    /\ op.name = "apply_to"
    /\ pre[op.node].parent # None
    /\ \E context \in Bindings(VarNames) :
          /\ evaluate(heap, op.change.root, context).t = "num"
          /\ evaluate(heap, heap[op.node].left, context)
                # evaluate(heap, heap[op.node].right, context)

\* C2 as claimed: apply_to leaves every node of the caller's tree with its
\* links and changed flag, and the change record refers to nodes of a
\* fresh clone only.
C2_ApplyToLeavesCallerTree ==
    op.name = "apply_to" =>
        /\ \A n \in Used(pre) :
              /\ heap[n].left = pre[n].left
              /\ heap[n].right = pre[n].right
              /\ heap[n].parent = pre[n].parent
              /\ heap[n].changed = pre[n].changed
        /\ {op.change.before, op.change.after, op.change.root} \subseteq Fresh

\* C2 amended: apply_to rewrites the node it is given in place, and its
\* change record refers to that node and to the root it hangs from; the
\* rule step of getNextState, which applies the rule to the root clone of
\* the focus token, leaves every node of the parsed expression with its
\* links and changed flag, and its change record refers to nodes of the
\* fresh clone only.
C2_RuleStepLeavesExpression ==
    /\ op.name = "apply_to" =>
          /\ heap[op.node].left = pre[op.node].right
          /\ heap[op.node].right = pre[op.node].left
          /\ heap[op.node].changed
          /\ op.change.before = op.node
          /\ op.change.after = op.node
          /\ op.change.root = OriginalRoot
    /\ op.name = "getNextState" =>
          /\ \A n \in Used(pre) :
                /\ heap[n].left = pre[n].left
                /\ heap[n].right = pre[n].right
                /\ heap[n].parent = pre[n].parent
                /\ heap[n].changed = pre[n].changed
          /\ {op.change.before, op.change.after, op.change.root} \subseteq Fresh

\* C2 witness: a rule step whose rewritten clone differs from the
\* expression, the focus token lying below the root.
C2_Witness ==
    /\ op.name = "getNextState"
    /\ pre[op.node].parent # None
    /\ TreeOf(heap, op.change.root) # TreeOf(pre, OriginalRoot)
    /\ TreeOf(heap, OriginalRoot) = TreeOf(pre, OriginalRoot)

\* C5 as claimed: can_apply_to is true for Add, false for a Multiply
\* exactly when preferred is set and the node is canonical, false for
\* every other kind.
C5_PreferredSetBlocksCanonical ==
    op.name = "can_apply_to" =>
        op.ok = (\/ heap[op.node].kind = AddExpression
                 \/ /\ heap[op.node].kind = MultiplyExpression
                    /\ ~(op.preferred /\ Canonical(heap, op.node)))

\* C5 amended: can_apply_to is true for every Add whatever the flag and
\* false for every kind other than Add and Multiply; with preferred set
\* every Multiply can be swapped; with preferred not set a canonical
\* Multiply cannot, and a Multiply that is not Constant * Variable and
\* whose right child is not Variable ^ Constant can.
C5_PreferredUnsetBlocksCanonical ==
    op.name = "can_apply_to" =>
        LET k == heap[op.node].kind
        IN  /\ k = AddExpression => op.ok
            /\ k \notin {AddExpression, MultiplyExpression} => ~op.ok
            /\ (k = MultiplyExpression /\ op.preferred) => op.ok
            /\ (k = MultiplyExpression /\ ~op.preferred /\ Canonical(heap, op.node))
                  => ~op.ok
            /\ (k = MultiplyExpression /\ ~op.preferred /\ ~Canonical(heap, op.node)
                    /\ ~RightIsVariablePower(heap, op.node))
                  => op.ok

\* C5 witness: a canonical Constant * (Variable ^ Constant) refused with
\* preferred not set.
C5_Witness ==
    /\ op.name = "can_apply_to"
    /\ ~op.preferred
    /\ Canonical(heap, op.node)
    /\ heap[heap[op.node].right].kind = PowerExpression
    /\ ~op.ok

\* C6: with preferred not set, can_apply_to on a Multiply is false exactly
\* when the node is canonical.
C6_OnlyCanonicalBlocked ==
    (op.name = "can_apply_to" /\ ~op.preferred
        /\ heap[op.node].kind = MultiplyExpression)
    => (op.ok = ~Canonical(heap, op.node))

\* C7: after apply_to on a node with children (a, b) the node has left b
\* and right a, both have the node as parent, and no other link changed;
\* the subtree is the one before with its operands exchanged.
C7_SwapEffect ==
    op.name = "apply_to" =>
        LET node == op.node
            a == pre[node].left
            b == pre[node].right
        IN  /\ heap[node].left = b
            /\ heap[node].right = a
            /\ heap[a].parent = node
            /\ heap[b].parent = node
            /\ heap[node].parent = pre[node].parent
            /\ \A n \in Used(heap) \ {node} :
                  /\ heap[n].left = pre[n].left
                  /\ heap[n].right = pre[n].right
                  /\ heap[n].parent = pre[n].parent
            /\ TreeOf(heap, node)
                  = <<pre[node].kind, TreeOf(pre, b), TreeOf(pre, a)>>
            /\ op.change.after = node

\* C7 witness: x + y has become y + x.
C7_Witness ==
    /\ op.name = "apply_to"
    /\ str(pre, op.node) = <<"x", " ", "+", " ", "y">>
    /\ str(heap, op.change.root) = <<"y", " ", "+", " ", "x">>

\* C8 as claimed: after apply_to both swapped children are marked changed.
C8_ChildrenMarkedChanged ==
    op.name = "apply_to" =>
        /\ heap[heap[op.node].left].changed
        /\ heap[heap[op.node].right].changed

\* C8 amended: after apply_to the swapped node itself is marked changed,
\* and the changed flag of every other node, its two children included, is
\* as before.
C8_NodeMarkedChanged ==
    op.name = "apply_to" =>
        /\ heap[op.node].changed
        /\ \A n \in Used(heap) \ {op.node} : heap[n].changed = pre[n].changed

\* C8 witness: a swap has marked a node that was not marked.
C8_Witness ==
    /\ op.name = "apply_to"
    /\ ~pre[op.node].changed
    /\ heap[op.node].changed
    /\ ~heap[heap[op.node].left].changed

\* C9: self.clone_from_root(node) succeeds and returns a node of the fresh
\* clone at the position of node that renders as node does.
C9_TrackedCloneCorrect ==
    op.name = "clone_from_root" =>
        /\ op.ok
        /\ op.result \in Fresh
        /\ SidePath(heap, op.result) = SidePath(pre, op.node)
        /\ str(heap, op.result) = str(pre, op.node)

---------------------------------------------------------------------------
(* Link mutations: any sequence of set_left, set_right, set_side, unlink   *)
(* and commutative swaps on a tree, or on a tree and a clone of it.        *)
(* op.fresh is the nodes of the clone, op.snap the heap when clone()       *)
(* returned, op.touched the trees ("orig", "clone") mutated since.         *)

LinkTrees ==
    TreesUpTo(MaxLinkSize, Leaves({1}, {"x"}), UnaryExpression, {AddExpression})

InitLinks ==
    /\ \E t \in LinkTrees : heap = Build(EmptyHeap, t).h
    /\ pre = heap
    /\ op = NoOp
    /\ steps = 0

\* The tree a node belongs to since the clone was made.
TreeSide(n) == IF n \in op.fresh THEN "clone" ELSE "orig"

\* Receiver and child of a mutation lie in one tree, and the child is not
\* an ancestor of the receiver (the trees stay acyclic).
Attachable(p, c) ==
    /\ c # None => (TreeSide(c) = TreeSide(p) /\ p \notin Subtree(heap, c))

\* A mutation with receiver p has been made: the tree it belongs to is
\* recorded as touched; pre and op keep the clone call.
Mutated(h, p) ==
    /\ heap' = h
    /\ pre' = pre
    /\ op' = [op EXCEPT !.name = "mutate",
                        !.touched = op.touched \cup {TreeSide(p)}]
    /\ steps' = steps + 1

\* node.clone().
Clone ==
    /\ op.name = "init"
    /\ \E node \in Used(heap) :
          LET c == clone(heap, node)
          IN  /\ heap' = c.h
              /\ op' = [NoOp EXCEPT !.name = "clone", !.node = node,
                                    !.result = c.r,
                                    !.fresh = Used(c.h) \ Used(heap),
                                    !.snap = c.h]
    /\ pre' = heap
    /\ steps' = steps

\* p.set_left(c), c a node or None.
SetLeft ==
    /\ steps < MaxSteps
    /\ \E p \in Used(heap), c \in Used(heap) \cup {None} :
          /\ Attachable(p, c)
          /\ Mutated(set_left(heap, p, c), p)

\* p.set_right(c).
SetRight ==
    /\ steps < MaxSteps
    /\ \E p \in Used(heap), c \in Used(heap) \cup {None} :
          /\ Attachable(p, c)
          /\ Mutated(set_right(heap, p, c), p)

\* p.set_side(c, side).
SetSide ==
    /\ steps < MaxSteps
    /\ \E p \in Used(heap), c \in Used(heap) \cup {None}, side \in {LEFT, RIGHT} :
          /\ Attachable(p, c)
          /\ Mutated(set_side(heap, p, c, side), p)

\* unlink(node).
Unlink ==
    /\ steps < MaxSteps
    /\ \E node \in Used(heap) : Mutated(unlink(heap, node), node)

\* The commutative swap of a node that has both children; the call returns
\* when the walk to the root that records the change does.
Swap ==
    /\ steps < MaxSteps
    /\ \E node \in Used(heap) :
          /\ heap[node].left # None
          /\ heap[node].right # None
          /\ can_apply_to(heap, TRUE, node)
          /\ Rooted(heap, node)
          /\ Mutated(apply_to(heap, node).h, node)

NextLinks == Clone \/ SetLeft \/ SetRight \/ SetSide \/ Unlink \/ Swap

SpecLinks == InitLinks /\ [][NextLinks]_vars

\* C3: in every state reached by set_left, set_right, set_side, unlink and
\* swaps, a node that is the left or right child of p has p as its parent.
C3_ParentLinkInvariant ==
    \A p \in Used(heap), n \in Used(heap) :
        (heap[p].left = n \/ heap[p].right = n) => heap[n].parent = p

\* The links and the payload of a node.
LinksAndPayload(h, n) ==
    <<h[n].left, h[n].right, h[n].parent, h[n].value, h[n].identifier>>

\* C10: clone() yields a tree of the same shape, kinds and payloads whose
\* nodes all carry identifiers no node carried before, the clone's root
\* has no parent and the original is as it was; and after any sequence of
\* link mutations on the clone every link and payload of the original is
\* as when clone() returned, and the other way round.
C10_CloneIsolation ==
    /\ op.name = "clone" =>
          /\ TreeOf(heap, op.result) = TreeOf(pre, op.node)
          /\ op.fresh = Subtree(heap, op.result)
          /\ \A c \in op.fresh, n \in Used(heap) :
                (heap[c].id = heap[n].id) => (c = n)
          /\ heap[op.result].parent = None
          /\ \A n \in Used(pre) : heap[n] = pre[n]
    /\ (op.fresh # {} /\ op.touched \subseteq {"clone"}) =>
          \A n \in Used(op.snap) \ op.fresh :
              LinksAndPayload(heap, n) = LinksAndPayload(op.snap, n)
    /\ (op.fresh # {} /\ op.touched \subseteq {"orig"}) =>
          \A n \in op.fresh :
              LinksAndPayload(heap, n) = LinksAndPayload(op.snap, n)

\* C10 witness: the clone of a subtree that holds a Constant has been
\* rewired MaxSteps times and is no longer the tree it was, the original
\* being mutated not once.
C10_Witness ==
    /\ op.fresh # {}
    /\ op.touched = {"clone"}
    /\ steps = MaxSteps
    /\ \E c \in op.fresh : heap[c].kind = ConstantExpression /\ heap[c].value = 1
    /\ \E c \in op.fresh :
          <<heap[c].left, heap[c].right, heap[c].parent>>
              # <<op.snap[c].left, op.snap[c].right, op.snap[c].parent>>

---------------------------------------------------------------------------
(* Text round trip: an expression is rendered, the text parsed back, and   *)
(* both trees evaluated under a binding of the variables.                  *)

InitExpr ==
    /\ \E t \in InputTrees : heap = Build(EmptyHeap, t).h
    /\ pre = heap
    /\ op = NoOp
    /\ steps = 0

\* str(expression) of the input tree.
Render ==
    /\ op.name = "init"
    /\ op' = [NoOp EXCEPT !.name = "render", !.node = InputRoot(heap),
                          !.text = str(heap, InputRoot(heap))]
    /\ heap' = heap
    /\ pre' = heap
    /\ steps' = steps + 1

\* parser.parse(text) of the rendered text: the parsed tree is built next
\* to the input tree.
Parse ==
    /\ op.name = "render"
    /\ LET e == parse(op.text)
       IN  IF e.ok
           THEN LET b == Build(heap, e.tree)
                IN  /\ heap' = b.h
                    /\ op' = [op EXCEPT !.name = "parse", !.result = b.r]
           ELSE /\ heap' = heap
                /\ op' = [op EXCEPT !.name = "parse", !.ok = FALSE]
    /\ pre' = heap
    /\ steps' = steps + 1

\* evaluate(context) of the input tree and of the parsed tree.
Evaluate ==
    /\ op.name = "parse"
    /\ op.ok
    /\ \E context \in Bindings(VarNames) :
          op' = [op EXCEPT !.name = "evaluate", !.context = context,
                           !.value = evaluate(heap, op.node, context),
                           !.parsed = evaluate(heap, op.result, context)]
    /\ heap' = heap
    /\ pre' = heap
    /\ steps' = steps + 1

\* to_math_ml() of the input tree.
ToMathML ==
    /\ op.name = "init"
    /\ op' = [NoOp EXCEPT !.name = "to_math_ml", !.node = InputRoot(heap),
                          !.text = to_math_ml(heap, InputRoot(heap))]
    /\ heap' = heap
    /\ pre' = heap
    /\ steps' = steps + 1

\* evaluate(context) of the input tree, the context binding any of the names.
EvaluateIn ==
    /\ op.name = "init"
    /\ \E context \in Contexts(VarNames) :
          op' = [NoOp EXCEPT !.name = "evaluate_in", !.node = InputRoot(heap),
                            !.context = context,
                            !.value = evaluate(heap, InputRoot(heap), context)]
    /\ heap' = heap
    /\ pre' = heap
    /\ steps' = steps + 1

\* differentiate(by_variable) of the input tree.
Differentiate ==
    /\ op.name = "init"
    /\ HasRoom(heap, Constructed(heap, InputRoot(heap)))
    /\ \E by_variable \in VarNames :
          LET d == differentiate(heap, InputRoot(heap), by_variable)
          IN  /\ heap' = d.h
              /\ op' = [NoOp EXCEPT !.name = "differentiate", !.node = InputRoot(heap),
                                    !.by_variable = by_variable,
                                    !.ok = (d.raised = ""), !.result = d.r,
                                    !.raised = d.raised]
    /\ pre' = heap
    /\ steps' = steps + 1

NextExpr == Render \/ Parse \/ Evaluate \/ ToMathML \/ EvaluateIn \/ Differentiate

SpecExpr == InitExpr /\ [][NextExpr]_vars

\* C4: the rendered text of every tree parses, and the parsed tree
\* evaluates to what the tree evaluates to under every binding.
C4_RoundTripValue ==
    /\ op.name = "parse" => op.ok
    /\ op.name = "evaluate" => op.parsed = op.value

---------------------------------------------------------------------------
(* Parentheses in the rendered text.                                       *)

StartsWith(t, u) == Len(u) <= Len(t) /\ SubSeq(t, 1, Len(u)) = u

EndsWith(t, u) == Len(u) <= Len(t) /\ SubSeq(t, Len(t) - Len(u) + 1, Len(t)) = u

Parenthesised(t) == <<"(">> \o t \o <<")">>

\* The text of n without the parentheses n may put around itself: what
\* str(n) is when n hangs from nothing.
Unwrapped(h, n) == str([h EXCEPT ![n].parent = None], n)

\* The pairs of parentheses str(p) puts around the text of p's left child:
\* -1 if the text of p does not begin with the child's text at all.
LeftWraps(h, p) ==
    LET t == Unwrapped(h, p)
        u == Unwrapped(h, h[p].left)
    IN  IF StartsWith(t, Parenthesised(Parenthesised(u))) THEN 2
        ELSE IF StartsWith(t, Parenthesised(u)) THEN 1
        ELSE IF StartsWith(t, u) THEN 0
        ELSE -1

\* The same for the right child, at the end of p's text.
RightWraps(h, p) ==
    LET t == Unwrapped(h, p)
        u == Unwrapped(h, h[p].right)
    IN  IF EndsWith(t, Parenthesised(Parenthesised(u))) THEN 2
        ELSE IF EndsWith(t, Parenthesised(u)) THEN 1
        ELSE IF EndsWith(t, u) THEN 0
        ELSE -1

\* The binary nodes of the heap that have both children.
BinaryNodes(h) ==
    {p \in Used(h) : h[p].kind \in BinaryExpression
                        /\ h[p].left # None /\ h[p].right # None}

\* C12: in the rendered text a binary left child of lower priority than
\* its binary parent, and a binary right child of lower or equal
\* priority, stands in parentheses, and no binary child stands in more
\* than one pair.
C12_ChildWrappedOnce ==
    op.name = "render" =>
        \A p \in BinaryNodes(heap) :
            /\ heap[heap[p].left].kind \in BinaryExpression =>
                  /\ LeftWraps(heap, p) \in {0, 1}
                  /\ get_priority(heap, heap[p].left) < get_priority(heap, p)
                        => LeftWraps(heap, p) = 1
            /\ heap[heap[p].right].kind \in BinaryExpression =>
                  /\ RightWraps(heap, p) \in {0, 1}
                  /\ get_priority(heap, heap[p].right) <= get_priority(heap, p)
                        => RightWraps(heap, p) = 1

---------------------------------------------------------------------------
(* Parentheses in the markup.                                              *)

MarkupParenthesised(m) ==
    make_ml_tag("mo", <<"(">>, <<>>) \o m \o make_ml_tag("mo", <<")">>, <<>>)

\* The opening of the mrow element of p.
RowOpening(h, p) == <<"<", "mrow", " class='">> \o JoinClasses(classes(h, p)) \o <<"'", ">">>

\* The markup of p holds its left child between <mo>(</mo> and <mo>)</mo>.
MarkupLeftWrapped(h, p) ==
    StartsWith(to_math_ml(h, p),
               RowOpening(h, p) \o MarkupParenthesised(to_math_ml(h, h[p].left)))

\* The same for the right child.
MarkupRightWrapped(h, p) ==
    EndsWith(to_math_ml(h, p),
             MarkupParenthesised(to_math_ml(h, h[p].right)) \o <<"</", "mrow", ">">>)

\* The text of a Multiply is its operands' texts side by side.
TextCompact(h, p) == Unwrapped(h, p) = str(h, h[p].left) \o str(h, h[p].right)

\* The markup of a Multiply is its operands' markup side by side.
MarkupCompact(h, p) ==
    to_math_ml(h, p) = to_math_ml(h, h[p].left) \o to_math_ml(h, h[p].right)

\* C13: the markup of a tree puts the child of a binary node between
\* <mo>(</mo> and <mo>)</mo> exactly when the text puts it in parentheses,
\* and a Multiply is compact in the markup exactly when it is in the text.
C13_MarkupMirrorsText ==
    op.name = "to_math_ml" =>
        /\ op.text = to_math_ml(heap, op.node)
        /\ \A p \in BinaryNodes(heap) :
              /\ MarkupLeftWrapped(heap, p) <=> (LeftWraps(heap, p) >= 1)
              /\ MarkupRightWrapped(heap, p) <=> (RightWraps(heap, p) >= 1)
              /\ heap[p].kind = MultiplyExpression =>
                    (MarkupCompact(heap, p) <=> TextCompact(heap, p))

---------------------------------------------------------------------------
(* Variables and their bindings.                                           *)

VariableNodes(h, n) == {v \in Subtree(h, n) : h[v].kind = VariableExpression}

\* C14: a variable whose identifier the bindings contain evaluates to the
\* bound number, whatever that number is, 0 included.
C14_BoundVariableValue ==
    op.name = "evaluate_in" =>
        \A v \in VariableNodes(heap, op.node) :
            heap[v].identifier \in Bound(op.context) =>
                /\ VariableExpression_evaluate(heap, v, op.context)
                      = IntVal(op.context.vals[heap[v].identifier])
                /\ op.node = v => op.value = IntVal(op.context.vals[heap[v].identifier])

\* C15: a tree with a variable the bindings lack never evaluates to a value,
\* and the variable fails with one and the same error whether the bindings
\* are missing, empty, or bind other names only.
C15_UnboundVariableError ==
    op.name = "evaluate_in" =>
        \A v \in VariableNodes(heap, op.node) :
            heap[v].identifier \notin Bound(op.context) =>
                /\ IsRaised(op.value)
                /\ VariableExpression_evaluate(heap, v, op.context)
                      = VariableExpression_evaluate(heap, v, NoContext)
                /\ VariableExpression_evaluate(heap, v, op.context)
                      = VariableExpression_evaluate(heap, v, Context(<<>>))

---------------------------------------------------------------------------
(* Derivatives.                                                            *)

\* C16: the derivative of Add(g, h) is Add(g', h') and the derivative of
\* Subtract(g, h) is Subtract(g', h'): the node returned has the kind of
\* the node differentiated, its operands are the derivatives of the
\* operands, and its value is g' + h', respectively g' - h', under every
\* binding.
C16_SumDifferenceRule ==
    (/\ op.name = "differentiate"
     /\ op.ok
     /\ pre[op.node].kind \in {AddExpression, SubtractExpression}) =>
        LET dl == differentiate(pre, pre[op.node].left, op.by_variable)
            dr == differentiate(dl.h, pre[op.node].right, op.by_variable)
        IN  /\ heap[op.result].kind = pre[op.node].kind
            /\ heap[op.result].left = dl.r
            /\ heap[op.result].right = dr.r
            /\ \A context \in Bindings(VarNames) :
                  evaluate(heap, op.result, context)
                      = operate(pre[op.node].kind,
                                evaluate(heap, dl.r, context),
                                evaluate(heap, dr.r, context))

\* The kinds C17 speaks of.
Differentiable == {ConstantExpression, VariableExpression, AddExpression,
                   SubtractExpression, MultiplyExpression, DivideExpression}

\* The node at n is the constant v, a leaf.
IsConstant(h, n, v) ==
    /\ n # None
    /\ h[n].kind = ConstantExpression
    /\ h[n].value = v
    /\ h[n].left = None
    /\ h[n].right = None

\* C17: the derivative of a variable by itself is Constant(1), by another
\* variable Constant(0), the derivative of a constant is Constant(0), and
\* differentiate succeeds on every tree of constants, variables, Add,
\* Subtract, Multiply and Divide.
C17_BaseCases ==
    (/\ op.name = "differentiate"
     /\ \A a \in Subtree(pre, op.node) : pre[a].kind \in Differentiable) =>
        /\ op.ok
        /\ pre[op.node].kind = VariableExpression =>
              IsConstant(heap, op.result,
                         IF pre[op.node].identifier = op.by_variable THEN 1 ELSE 0)
        /\ pre[op.node].kind = ConstantExpression => IsConstant(heap, op.result, 0)

---------------------------------------------------------------------------
(* The type id of a node: one node of each class, the constants of every   *)
(* value up to MaxValue either side of 0, the variables of a few           *)
(* identifiers.                                                            *)

\* Identifiers of one and of several characters, in either case, one that
\* starts with no letter, and "" for a variable without identifier.
Identifiers == {"x", "y", "a", "z", "X", "ab", "Zed", "_t", ""}

\* A node of kind k on two leaves, or on one where k is unary.
WithOperands(k) ==
    LET l == NewConstant(EmptyHeap, 1)
        r == NewVariable(l.h, "x")
    IN  IF k \in UnaryExpression \cup FunctionExpression
        THEN NewUnary(l.h, k, l.r)
        ELSE NewBinary(r.h, k, l.r, r.r)

TypedNodes ==
    {NewConstant(EmptyHeap, v) : v \in -MaxValue..MaxValue}
        \cup {NewVariable(EmptyHeap, i) : i \in Identifiers}
        \cup {WithOperands(k) : k \in UnaryExpression \cup FunctionExpression
                                         \cup BinaryExpression}

InitTypeId ==
    /\ \E t \in TypedNodes :
          /\ heap = t.h
          /\ op = [NoOp EXCEPT !.node = t.r]
    /\ pre = heap
    /\ steps = 0

\* node.type_id
TypeId ==
    /\ op.name = "init"
    /\ LET t == type_id(heap, op.node)
       IN  op' = [op EXCEPT !.name = "type_id", !.ok = (t.raised = ""),
                            !.type_id = t.id, !.raised = t.raised]
    /\ heap' = heap
    /\ pre' = heap
    /\ steps' = steps + 1

NextTypeId == TypeId

SpecTypeId == InitTypeId /\ [][NextTypeId]_vars

\* C18: type_id never fails and returns an integer of 0..MathTypeKeysMax,
\* of 0..15 for the operator and function kinds, 16 or above for the
\* constants and variables.
C18_TypeIdTotalAndBounded ==
    op.name = "type_id" =>
        /\ op.ok
        /\ op.type_id \in 0..MathTypeKeysMax
        /\ heap[op.node].kind \in {ConstantExpression, VariableExpression}
              => op.type_id >= 16
        /\ heap[op.node].kind \notin {ConstantExpression, VariableExpression}
              => op.type_id <= 15

\* The letters, in the order of their slots.
Letters ==
    <<"a", "b", "c", "d", "e", "f", "g", "h", "i", "j", "k", "l", "m",
      "n", "o", "p", "q", "r", "s", "t", "u", "v", "w", "x", "y", "z">>
Capitals ==
    <<"A", "B", "C", "D", "E", "F", "G", "H", "I", "J", "K", "L", "M",
      "N", "O", "P", "Q", "R", "S", "T", "U", "V", "W", "X", "Y", "Z">>

\* The variable at n has an identifier that starts with a letter, and its
\* type id is the slot of that letter: 26 + the letter's place in the
\* alphabet.
LetterSlot(h, n, id) ==
    \A i \in 1..26 :
        Characters(h[n].identifier)[1] \in {Letters[i], Capitals[i]} => id = 26 + i

StartsWithLetter(h, n) ==
    /\ h[n].identifier # ""
    /\ \E i \in 1..26 : Characters(h[n].identifier)[1] \in {Letters[i], Capitals[i]}

\* C19 as stated: the type id of a Constant is 16 + the first significant
\* digit of its value, the type id of a Variable the slot of the first
\* character of its identifier.
C19_FirstDigitSlot ==
    op.name = "type_id" =>
        /\ heap[op.node].kind = ConstantExpression =>
              /\ op.ok
              /\ op.type_id = 16 + LeadingDigit(Abs(heap[op.node].value))
        /\ (heap[op.node].kind = VariableExpression /\ StartsWithLetter(heap, op.node)) =>
              /\ op.ok
              /\ LetterSlot(heap, op.node, op.type_id)

\* C19: the type id of a Constant is 16 + the units digit of its value,
\* value mod 10 (the constants 40..49 take the ten digit slots in turn),
\* the type id of a Variable the slot of the first character of its
\* identifier.
C19_UnitsDigitSlot ==
    op.name = "type_id" =>
        /\ heap[op.node].kind = ConstantExpression =>
              /\ op.ok
              /\ op.type_id = 16 + (heap[op.node].value % 10)
              /\ heap[op.node].value \in 40..49 =>
                    op.type_id = 16 + (heap[op.node].value - 40)
        /\ (heap[op.node].kind = VariableExpression /\ StartsWithLetter(heap, op.node)) =>
              /\ op.ok
              /\ LetterSlot(heap, op.node, op.type_id)

\* The type id of a constant whose first digit is not its last has been
\* taken.
C19_Witness ==
    /\ op.name = "type_id"
    /\ heap[op.node].kind = ConstantExpression
    /\ heap[op.node].value = 42
    /\ op.type_id = 18

---------------------------------------------------------------------------
(* Binary nodes without a child: the constructor's defaults are            *)
(* left=None, right=None.                                                  *)

\* What a binary node is constructed on: nothing, a constant, a variable.
Operands == {<<"none">>, <<ConstantExpression, 1>>, <<VariableExpression, "x">>}

\* The operand o in heap h; r is None for the absent one.
Operand(h, o) ==
    CASE o[1] = "none" -> [h |-> h, r |-> None]
      [] o[1] = ConstantExpression -> NewConstant(h, o[2])
      [] o[1] = VariableExpression -> NewVariable(h, o[2])

BinaryNodesOn ==
    {LET l == Operand(EmptyHeap, ol)
         r == Operand(l.h, or)
     IN  NewBinary(r.h, k, l.r, r.r) :
        ol \in Operands, or \in Operands, k \in BinaryExpression}

InitMissing ==
    /\ \E t \in BinaryNodesOn :
          /\ heap = t.h
          /\ op = NoOp
    /\ pre = heap
    /\ steps = 0

NextMissing == Render \/ EvaluateIn \/ Differentiate

SpecMissing == InitMissing /\ [][NextMissing]_vars

\* C20: str, evaluate and differentiate of a binary node that lacks a
\* child fail with the structural error that names the node's class, the
\* ValueError of BinaryExpression.__str__; none of them returns a result.
C20_MissingChildFails ==
    (/\ op.name \in {"render", "evaluate_in", "differentiate"}
     /\ pre[op.node].kind \in BinaryExpression
     /\ (pre[op.node].left = None \/ pre[op.node].right = None)) =>
        /\ op.name = "render" => op.text = ValueError
        /\ op.name = "evaluate_in" => op.value = Raised("ValueError")
        /\ op.name = "differentiate" => (~op.ok /\ op.raised = "ValueError")

---------------------------------------------------------------------------
(* Worker threads that call clone_from_root() on one node of a tree they   *)
(* share.  A thread can be switched out between any two statements of the  *)
(* method; op.node is the shared node, op.w[i] what worker i holds: the    *)
(* statement it is at, its local result and the nodes its clone() made.    *)

Workers == {1, 2}

SharedTrees == TreesUpTo(MaxLinkSize, Leaves({1}, {"x"}), UnaryExpression, {AddExpression})

NoWorker == [pc |-> "cloned_node", result |-> None, fresh |-> {}]

InitWorkers ==
    /\ \E t \in SharedTrees : heap = Build(EmptyHeap, t).h
    /\ pre = heap
    /\ \E node \in Used(heap) :
          op = [NoOp EXCEPT !.name = "workers", !.node = node,
                            !.w = [i \in Workers |-> NoWorker]]
    /\ steps = 0

\* Worker i has executed a statement: the heap is now h and the worker
\* holds w.
Stepped(i, h, w) ==
    /\ heap' = h
    /\ op' = [op EXCEPT !.w[i] = w]
    /\ UNCHANGED <<pre, steps>>

\* self.cloned_node = None
SetClonedNode ==
    \E i \in Workers :
        /\ op.name = "workers" /\ op.w[i].pc = "cloned_node"
        /\ Stepped(i, [heap EXCEPT ![op.node].cloned_node = None],
                   [op.w[i] EXCEPT !.pc = "cloned_target"])

\* self.cloned_target = node.path_to_root()
SetClonedTarget ==
    \E i \in Workers :
        /\ op.name = "workers" /\ op.w[i].pc = "cloned_target"
        /\ Stepped(i, [heap EXCEPT ![op.node].cloned_target =
                                       path_to_root(heap, op.node)],
                   [op.w[i] EXCEPT !.pc = "clone"])

\* result = node.get_root().clone()
CloneRoot ==
    \E i \in Workers :
        /\ op.name = "workers" /\ op.w[i].pc = "clone"
        /\ HasRoom(heap, MaxLinkSize)
        /\ LET c == clone(heap, get_root(heap, op.node))
           IN  Stepped(i, c.h, [op.w[i] EXCEPT !.pc = "check", !.result = c.r,
                                               !.fresh = Used(c.h) \ Used(heap)])

\* if not self.cloned_node: raise Exception(...)
CheckCloned ==
    \E i \in Workers :
        /\ op.name = "workers" /\ op.w[i].pc = "check"
        /\ Stepped(i, heap,
                   [op.w[i] EXCEPT !.pc = IF heap[op.node].cloned_node = None
                                          THEN "raised" ELSE "take"])

\* result = self.cloned_node
TakeCloned ==
    \E i \in Workers :
        /\ op.name = "workers" /\ op.w[i].pc = "take"
        /\ Stepped(i, heap, [op.w[i] EXCEPT !.pc = "reset_node",
                                            !.result = heap[op.node].cloned_node])

\* self.cloned_node = None
ResetClonedNode ==
    \E i \in Workers :
        /\ op.name = "workers" /\ op.w[i].pc = "reset_node"
        /\ Stepped(i, [heap EXCEPT ![op.node].cloned_node = None],
                   [op.w[i] EXCEPT !.pc = "reset_target"])

\* self.cloned_target = None; return result
ResetClonedTarget ==
    \E i \in Workers :
        /\ op.name = "workers" /\ op.w[i].pc = "reset_target"
        /\ Stepped(i, [heap EXCEPT ![op.node].cloned_target = NoPath],
                   [op.w[i] EXCEPT !.pc = "returned"])

NextWorkers ==
    \/ SetClonedNode \/ SetClonedTarget \/ CloneRoot \/ CheckCloned
    \/ TakeCloned \/ ResetClonedNode \/ ResetClonedTarget

SpecWorkers == InitWorkers /\ [][NextWorkers]_vars

\* C11: with two workers interleaving clone_from_root on one node of a
\* shared tree, no call raises, each call that returned holds a node of
\* the clone its own clone() made, and no field of a node of the shared
\* tree is ever written.
C11_ConcurrentCloneSafe ==
    op.name = "workers" =>
        /\ \A n \in Used(pre) : heap[n] = pre[n]
        /\ \A i \in Workers :
              /\ op.w[i].pc # "raised"
              /\ op.w[i].pc = "returned" => op.w[i].result \in op.w[i].fresh

---------------------------------------------------------------------------
(* factor(value): the verbose factor dictionary, a function from the keys  *)
(* to their cofactors.                                                     *)

\* int(x) of the square root of a value that has one: the largest s with
\* s * s <= value.
IntSqrt(value) == CHOOSE s \in 0..value : s * s <= value /\ (s + 1) * (s + 1) > value

\* dict[key] = val
SetItem(dict, key, val) == (key :> val) @@ dict

\* The body of the loop of factor with one arrangement of the pair only.
factor_body_one_arrangement(value, i, factors) ==
    IF value % i = 0
    THEN SetItem(factors, i, value \div i)
    ELSE factors

\* The body of the loop of factor: both arrangements of a factor pair.
factor_body(value, i, factors) ==
    IF value % i = 0
    THEN SetItem(SetItem(factors, i, value \div i), value \div i, i)
    ELSE factors

RECURSIVE factor_loop(_, _, _, _)
\* for i in range(i, sqrt)
factor_loop(value, i, sqrt, factors) ==
    IF i >= sqrt THEN factors
    ELSE factor_loop(value, i + 1, sqrt, factor_body(value, i, factors))

\* factor(value); the square root of a negative value is nan.
factor(value) ==
    IF value = 0 THEN <<>>
    ELSE IF value < 0 THEN <<>>
    ELSE factor_loop(value, 2, IntSqrt(value) + 1,
                     SetItem(SetItem(<<>>, 1, value), value, 1))

InitFactor ==
    /\ heap = EmptyHeap
    /\ pre = heap
    /\ \E value \in -MaxValue..MaxValue : op = [NoOp EXCEPT !.arg = value]
    /\ steps = 0

\* factor(value)
Factor ==
    /\ op.name = "init"
    /\ op' = [op EXCEPT !.name = "factor", !.factors = factor(op.arg)]
    /\ UNCHANGED <<heap, pre>>
    /\ steps' = steps + 1

NextFactor == Factor

SpecFactor == InitFactor /\ [][NextFactor]_vars

\* The positive divisors of v.
Divisors(v) == {k \in 1..v : v % k = 0}

\* C25: factor of a positive integer returns a map whose keys are exactly
\* the positive divisors of the value, each key times its entry being the
\* value; factor of 0 and of a negative value returns the empty map.
C25_FactorMap ==
    op.name = "factor" =>
        /\ op.arg > 0 =>
              /\ DOMAIN op.factors = Divisors(op.arg)
              /\ \A k \in DOMAIN op.factors : op.factors[k] * k = op.arg
        /\ op.arg <= 0 => DOMAIN op.factors = {}

\* The factors of a value with a divisor pair of two different numbers
\* other than 1 and the value have been taken.
C25_Witness ==
    /\ op.name = "factor"
    /\ op.arg = 12
    /\ DOMAIN op.factors = {1, 2, 3, 4, 6, 12}
    /\ op.factors[4] = 3

---------------------------------------------------------------------------
(* Terms.  An optional number is <<>> for None and <<v>> for v; a TermEx   *)
(* without variable has the variable "".                                   *)

\* TermEx(coefficient, variable, exponent)
TermEx(coefficient, variable, exponent) ==
    [coefficient |-> coefficient, variable |-> variable, exponent |-> exponent]

\* The truth value of an optional number: None and 0 are false.
Truthy(o) == o # <<>> /\ o[1] # 0

\* FactorResult(); returned_false marks the return value False.
FactorResult ==
    [returned_false |-> FALSE, best |-> -1, left |-> -1, right |-> -1,
     all_left |-> <<>>, all_right |-> <<>>, variable |-> "", exponent |-> <<>>,
     leftExponent |-> <<>>, rightExponent |-> <<>>,
     leftVariable |-> "", rightVariable |-> ""]

ReturnedFalse == [FactorResult EXCEPT !.returned_false = TRUE]

\* np.min and np.max of a list of numbers
np_min(common) == CHOOSE k \in common : \A j \in common : k <= j
np_max(common) == CHOOSE k \in common : \A j \in common : k >= j

\* The choice of best that takes the largest common factor in every case.
best_factor_largest(left_term, right_term, common) == np_max(common)

\* The choice of best: the smallest common factor when either term has a
\* variable, else the largest.
best_factor(left_term, right_term, common) ==
    IF left_term.variable # "" \/ right_term.variable # ""
    THEN np_min(common)
    ELSE np_max(common)

\* factor_add_terms_ex(left_term, right_term) of two terms.
factor_add_terms_ex(left_term, right_term) ==
    LET l_factors == factor(IF left_term.coefficient # <<>>
                            THEN left_term.coefficient[1] ELSE 1)
        r_factors == factor(IF right_term.coefficient # <<>>
                            THEN right_term.coefficient[1] ELSE 1)
        common == DOMAIN r_factors \cap DOMAIN l_factors
        has_left == left_term.variable # ""
        has_right == right_term.variable # ""
        best == best_factor(left_term, right_term, common)
        two_exp_and_match ==
            /\ left_term.exponent # <<>>
            /\ right_term.exponent # <<>>
            /\ left_term.exponent = right_term.exponent
        both_match ==
            IF (Truthy(left_term.exponent) \/ Truthy(right_term.exponent))
                  /\ ~two_exp_and_match
            THEN FALSE ELSE TRUE
        shared == has_left /\ has_right
                     /\ left_term.variable = right_term.variable /\ both_match
        variable == IF shared THEN left_term.variable ELSE ""
        exponent == IF shared THEN left_term.exponent ELSE <<>>
    IN  IF common = {} THEN ReturnedFalse
        ELSE [FactorResult EXCEPT
                 !.best = best,
                 !.left = l_factors[best],
                 !.right = r_factors[best],
                 !.all_left = l_factors,
                 !.all_right = r_factors,
                 !.variable = variable,
                 !.exponent = exponent,
                 !.leftExponent =
                     IF Truthy(left_term.exponent) /\ left_term.exponent # exponent
                     THEN left_term.exponent ELSE <<>>,
                 !.rightExponent =
                     IF Truthy(right_term.exponent) /\ right_term.exponent # exponent
                     THEN right_term.exponent ELSE <<>>,
                 !.leftVariable =
                     IF has_left /\ left_term.variable # variable
                     THEN left_term.variable ELSE "",
                 !.rightVariable =
                     IF has_right /\ right_term.variable # variable
                     THEN right_term.variable ELSE ""]

\* DistributiveFactorOut.can_apply_to on a sum of the two terms: it fails
\* when the terms are not like terms or have no common factor above 1.
DistributiveFactorOut_can_apply_to(left_term, right_term) ==
    LET f == factor_add_terms_ex(left_term, right_term)
    IN  /\ ~f.returned_false
        /\ left_term.variable = right_term.variable
        /\ left_term.exponent = right_term.exponent
        /\ \E k \in DOMAIN f.all_left \cap DOMAIN f.all_right : k > 1

\* The terms that are factored: coefficients of 1..MaxCoef or none.
FactorTerms ==
    {TermEx(c, v, e) :
        c \in {<<>>} \cup {<<k>> : k \in 1..MaxCoef},
        v \in {""} \cup VarNames,
        e \in {<<>>, <<2>>, <<3>>}}

InitFactorTerms ==
    /\ heap = EmptyHeap
    /\ pre = heap
    /\ \E left_term \in FactorTerms, right_term \in FactorTerms :
          op = [NoOp EXCEPT !.args = <<left_term, right_term>>]
    /\ steps = 0

\* factor_add_terms_ex(left_term, right_term) and the rule's can_apply_to
FactorAddTerms ==
    /\ op.name = "init"
    /\ op' = [op EXCEPT !.name = "factor_add_terms_ex",
                        !.ret = factor_add_terms_ex(op.args[1], op.args[2]),
                        !.ok = DistributiveFactorOut_can_apply_to(op.args[1], op.args[2])]
    /\ UNCHANGED <<heap, pre>>
    /\ steps' = steps + 1

NextFactorTerms == FactorAddTerms

SpecFactorTerms == InitFactorTerms /\ [][NextFactorTerms]_vars

\* The coefficient a term stands for: 1 when it has none.
Coefficient(term) == IF term.coefficient # <<>> THEN term.coefficient[1] ELSE 1

CommonDivisors(cl, cr) == Divisors(cl) \cap Divisors(cr)

---------------------------------------------------------------------------
(* Term summaries: get_term and terms_are_like.  The lists of values of a  *)
(* TermResult are modelled, its lists of nodes are not.                    *)

\* TermResult(); returned_false marks the return value False of get_term.
TermResult ==
    [returned_false |-> FALSE, coefficients |-> <<>>, variables |-> <<>>,
     exponent |-> <<>>]

NoTerm == [TermResult EXCEPT !.returned_false = TRUE]

\* is_add_or_sub(node)
is_add_or_sub(h, n) ==
    n # None /\ h[n].kind \in {AddExpression, SubtractExpression}

\* node.is_leaf()
is_leaf(h, n) == h[n].left = None /\ h[n].right = None

\* node.findByType(type): the nodes of the kinds given, in visiting order.
findByType(h, n, kinds) == SelectSeq(toList(h, n), LAMBDA a : h[a].kind \in kinds)

\* The identifiers in the order list.sort() gives them.
NameOrder == <<"x", "y">>

RECURSIVE Repeat(_, _)
Repeat(x, k) == IF k = 0 THEN <<>> ELSE <<x>> \o Repeat(x, k - 1)

RECURSIVE SortedFrom(_, _)
\* list.sort() of a list of identifiers, from the i-th name of the order on.
SortedFrom(names, i) ==
    IF i > Len(NameOrder) THEN <<>>
    ELSE Repeat(NameOrder[i],
                Len(SelectSeq(names, LAMBDA v : v = NameOrder[i])))
            \o SortedFrom(names, i + 1)

\* filter_coefficients(n) of get_term(node)
filter_coefficients(h, node, n) ==
    IF h[n].parent = None \/ h[n].parent = h[node].parent THEN TRUE
    ELSE IF h[h[n].parent].kind \in BinaryExpression
            /\ h[h[n].parent].kind # MultiplyExpression
    THEN FALSE
    ELSE TRUE

\* resolve_coefficients(c) of get_term(node)
resolve_coefficients(h, c) ==
    IF h[c].parent # None /\ h[h[c].parent].kind = NegateExpression
    THEN h[c].value * (-1)
    ELSE h[c].value

\* get_term(node)
get_term(h, node) ==
    LET exponents == findByType(h, node, {PowerExpression})
        variables == findByType(h, node, {VariableExpression})
        coefficients ==
            SelectSeq(findByType(h, node, {ConstantExpression}),
                      LAMBDA c : filter_coefficients(h, node, c))
        exponent == IF Len(exponents) > 0
                    THEN <<h[h[exponents[1]].right].value>> ELSE <<>>
        result == [TermResult EXCEPT
                      !.exponent = exponent,
                      !.variables =
                          SortedFrom([i \in 1..Len(variables) |->
                                         h[variables[i]].identifier], 1),
                      !.coefficients =
                          [i \in 1..Len(coefficients) |->
                              resolve_coefficients(h, coefficients[i])]]
    IN  IF /\ h[node].kind = ConstantExpression
           /\ (h[node].parent = None \/ is_add_or_sub(h, h[node].parent))
        THEN [TermResult EXCEPT !.coefficients = <<h[node].value>>]
        ELSE IF /\ h[node].kind = VariableExpression
                /\ (h[node].parent = None \/ is_add_or_sub(h, h[node].parent))
        THEN [TermResult EXCEPT !.variables = <<h[node].identifier>>]
        ELSE IF /\ ~is_add_or_sub(h, node)
                /\ Len(findByType(h, node, {AddExpression, SubtractExpression})) > 0
        THEN NoTerm
        ELSE IF /\ h[node].left # None
                /\ Len(findByType(h, h[node].left, {AddExpression})) > 0
                /\ h[node].right # None
                /\ ~is_leaf(h, h[node].right)
        THEN NoTerm
        ELSE IF /\ h[node].right # None
                /\ Len(findByType(h, h[node].right, {AddExpression})) > 0
        THEN NoTerm
        ELSE IF Len(exponents) > 1 THEN NoTerm
        ELSE IF /\ Len(exponents) = 1
                /\ (h[exponents[1]].right = None
                       \/ h[h[exponents[1]].right].kind # ConstantExpression)
        THEN NoTerm
        ELSE IF /\ Len(result.variables) = 0
                /\ Len(result.coefficients) = 0
                /\ result.exponent = <<>>
        THEN NoTerm
        ELSE result

\* x in list
In(x, list) == \E i \in 1..Len(list) : list[i] = x

\* invalid of terms_are_like: a variable of one that two has not.
variables_invalid(one, two) ==
    \E i \in 1..Len(one.variables) : ~In(one.variables[i], two.variables)

\* An argument of terms_are_like: False, a term summary, or an expression.
ArgFalse == [t |-> "False", term |-> NoTerm, node |-> None]
ArgTerm(term) == [t |-> "TermResult", term |-> term, node |-> None]
ArgExpression(n) == [t |-> "MathExpression", term |-> NoTerm, node |-> n]

\* The term terms_are_like works on: the argument itself, or get_term of
\* it when it is an expression.
Extracted(h, arg) ==
    IF arg.t = "MathExpression" THEN get_term(h, arg.node) ELSE arg.term

\* terms_are_like(one, two): "True", "False", or the exception raised when
\* an attribute of the value False is read.
terms_are_like(h, a, b) ==
    IF a.t = "False" \/ b.t = "False" THEN "False"
    ELSE LET one == Extracted(h, a)
             two == Extracted(h, b)
         IN  IF one.returned_false \/ two.returned_false THEN "AttributeError"
             ELSE IF Len(one.variables) = 0 /\ Len(two.variables) = 0 THEN "True"
             ELSE IF Len(one.variables) # Len(two.variables) THEN "False"
             ELSE IF variables_invalid(one, two) THEN "False"
             ELSE IF one.exponent # two.exponent THEN "False"
             ELSE "True"

\* The trees whose nodes are given to terms_are_like.
TermTrees ==
    TreesUpTo(MaxLinkSize, Leaves({2}, VarNames), UnaryExpression,
              {AddExpression, MultiplyExpression, PowerExpression})

\* The sorted lists of at most two variables.
VariableLists ==
    {<<>>} \cup {<<v>> : v \in VarNames}
        \cup {SortedFrom(<<v, w>>, 1) : v \in VarNames, w \in VarNames}

\* The term summaries given to terms_are_like.
Summaries ==
    {[TermResult EXCEPT !.coefficients = c, !.variables = v, !.exponent = e] :
        c \in {<<>>, <<2>>}, v \in VariableLists, e \in {<<>>, <<2>>, <<3>>}}

InitLike ==
    /\ \E t \in TermTrees : heap = Build(EmptyHeap, t).h
    /\ pre = heap
    /\ op = NoOp
    /\ steps = 0

\* terms_are_like(one, two) of any two of False, the term summaries and the
\* nodes of the tree.
TermsAreLike ==
    /\ op.name = "init"
    /\ \E one, two \in {ArgFalse} \cup {ArgTerm(t) : t \in Summaries}
                          \cup {ArgExpression(n) : n \in Used(heap)} :
          op' = [NoOp EXCEPT !.name = "terms_are_like", !.args = <<one, two>>,
                            !.raised = IF terms_are_like(heap, one, two) = "AttributeError"
                                       THEN "AttributeError" ELSE "",
                            !.ok = (terms_are_like(heap, one, two) = "True")]
    /\ UNCHANGED <<heap, pre>>
    /\ steps' = steps + 1

NextLike == TermsAreLike

SpecLike == InitLike /\ [][NextLike]_vars

\* The argument is a valid term: a term summary, or an expression that
\* get_term extracts a term from.
ValidTerm(h, arg) == arg.t # "False" /\ ~Extracted(h, arg).returned_false

\* The number of times v occurs in a list.
Occurrences(v, list) == Len(SelectSeq(list, LAMBDA x : x = v))

SameVariables(one, two) ==
    \A v \in VarNames : Occurrences(v, one.variables) = Occurrences(v, two.variables)

\* C22: terms_are_like(one, two) is true exactly if both are valid terms
\* with the same variables, as multisets, and the same exponent; it
\* returns false, and does not fail, when an argument is not a valid term,
\* also when get_term extracts no term from an expression given.
C22_LikeIffSameVariablesAndExponent ==
    op.name = "terms_are_like" =>
        /\ op.raised = ""
        /\ op.ok <=>
              /\ ValidTerm(heap, op.args[1])
              /\ ValidTerm(heap, op.args[2])
              /\ SameVariables(Extracted(heap, op.args[1]), Extracted(heap, op.args[2]))
              /\ Extracted(heap, op.args[1]).exponent
                    = Extracted(heap, op.args[2]).exponent

\* C30: terms_are_like is symmetric on term summaries.
C30_LikeSymmetric ==
    (/\ op.name = "terms_are_like"
     /\ op.args[1].t = "TermResult"
     /\ op.args[2].t = "TermResult") =>
        (op.ok <=> terms_are_like(heap, op.args[2], op.args[1]) = "True")

---------------------------------------------------------------------------
(* The tree that is differentiated.                                        *)

\* C24: differentiate is not destructive: after a call that returns, every
\* node of the tree differentiated has the parent and the children it had,
\* each child of a node of the tree points back to it, and the tree renders
\* and evaluates as before.
C24_DifferentiateKeepsOriginal ==
    (op.name = "differentiate" /\ op.ok) =>
        /\ \A n \in Subtree(pre, op.node) :
              /\ heap[n].parent = pre[n].parent
              /\ heap[n].left = pre[n].left
              /\ heap[n].right = pre[n].right
              /\ heap[n].left # None => heap[heap[n].left].parent = n
              /\ heap[n].right # None => heap[heap[n].right].parent = n
        /\ str(heap, op.node) = str(pre, op.node)
        /\ \A context \in Bindings(VarNames) :
              evaluate(heap, op.node, context) = evaluate(pre, op.node, context)

---------------------------------------------------------------------------
(* negate(node): l - r rewritten as l + (-r).                              *)

\* negate(node): the heap, the node returned and the exception raised.
negate(h, node) ==
    LET save == h[node].parent
        saveSide == IF save # None THEN get_side(h, save, node) ELSE "none"
        h1 == unlink(h, node)
        neg == NewUnary(h1, NegateExpression, h1[node].right)
        newNode == NewBinary(neg.h, AddExpression, h1[node].left, neg.r)
    IN  IF save = None
        THEN Failed(newNode.h, "AttributeError")
        ELSE Derived(newNode.h, newNode.r)

\* negate(node) of a Subtract node of the input tree.
Negate ==
    /\ op.name = "init"
    /\ HasRoom(heap, 2)
    /\ \E node \in Used(heap) :
          /\ heap[node].kind = SubtractExpression
          /\ LET d == negate(heap, node)
             IN  /\ heap' = d.h
                 /\ op' = [NoOp EXCEPT !.name = "negate", !.node = node,
                                      !.ok = (d.raised = ""), !.result = d.r,
                                      !.raised = d.raised]
    /\ pre' = heap
    /\ steps' = steps + 1

NextNegate == Negate

SpecNegate == Init /\ [][NextNegate]_vars

\* C27: negate of a Subtract node l - r returns a new Add(l, Negate(r)) of
\* the same value and puts it in the place of the node: on the same side of
\* the parent the node had, or as a root when the node was one, in which
\* case the call succeeds too.
C27_NegateInstalled ==
    op.name = "negate" =>
        /\ op.ok
        /\ heap[op.result].kind = AddExpression
        /\ op.result \notin Used(pre)
        /\ heap[op.result].left = pre[op.node].left
        /\ heap[heap[op.result].right].kind = NegateExpression
        /\ heap[heap[op.result].right].left = pre[op.node].right
        /\ \A context \in Bindings(VarNames) :
              evaluate(heap, op.result, context) = evaluate(pre, op.node, context)
        /\ pre[op.node].parent # None =>
              /\ heap[op.result].parent = pre[op.node].parent
              /\ get_side(heap, pre[op.node].parent, op.result)
                    = get_side(pre, pre[op.node].parent, op.node)
        /\ pre[op.node].parent = None => heap[op.result].parent = None

---------------------------------------------------------------------------
(* make_term and get_term_ex.                                              *)

\* make_term(coefficient, variable, exponent): the objects are constructed
\* in the order of the statements, needed or not.
make_term(h, coefficient, variable, exponent) ==
    LET constExp == NewConstant(h, coefficient)
        varExp == NewVariable(constExp.h, variable)
        multExp == NewBinary(varExp.h, MultiplyExpression, constExp.r, varExp.r)
        expConstExp == NewConstant(multExp.h, IF exponent # <<>> THEN exponent[1] ELSE 0)
    IN  IF variable = "" /\ ~Truthy(exponent) THEN constExp
        ELSE IF coefficient = 1 /\ ~Truthy(exponent) THEN varExp
        ELSE IF ~Truthy(exponent) THEN multExp
        ELSE IF coefficient = 1
        THEN NewBinary(expConstExp.h, PowerExpression, varExp.r, expConstExp.r)
        ELSE NewBinary(expConstExp.h, PowerExpression, multExp.r, expConstExp.r)

\* The return value None of get_term_ex.
NoTermEx == [none |-> TRUE, term |-> TermEx(<<>>, "", <<>>)]
SomeTermEx(term) == [none |-> FALSE, term |-> term]

\* isinstance(node, kind), false of None.
isinstance(h, n, kind) == n # None /\ h[n].kind = kind

\* get_term_ex(node)
get_term_ex(h, node) ==
    IF /\ isinstance(h, node, ConstantExpression)
       /\ (h[node].parent = None \/ h[h[node].parent].kind # PowerExpression)
    THEN SomeTermEx(TermEx(<<h[node].value>>, "", <<>>))
    ELSE IF /\ isinstance(h, node, VariableExpression)
            /\ (h[node].parent = None \/ h[h[node].parent].kind # PowerExpression)
    THEN SomeTermEx(TermEx(<<>>, h[node].identifier, <<>>))
    ELSE IF /\ isinstance(h, node, MultiplyExpression)
            /\ isinstance(h, h[node].left, ConstantExpression)
            /\ isinstance(h, h[node].right, VariableExpression)
    THEN SomeTermEx(TermEx(<<h[h[node].left].value>>, h[h[node].right].identifier, <<>>))
    ELSE IF /\ isinstance(h, node, MultiplyExpression)
            /\ isinstance(h, h[node].left, ConstantExpression)
            /\ isinstance(h, h[node].right, PowerExpression)
            /\ isinstance(h, h[h[node].right].left, VariableExpression)
            /\ isinstance(h, h[h[node].right].right, ConstantExpression)
    THEN SomeTermEx(TermEx(<<h[h[node].left].value>>,
                           h[h[h[node].right].left].identifier,
                           <<h[h[h[node].right].right].value>>))
    ELSE IF /\ isinstance(h, node, PowerExpression)
            /\ isinstance(h, h[node].left, VariableExpression)
            /\ isinstance(h, h[node].right, ConstantExpression)
    THEN SomeTermEx(TermEx(<<>>, h[h[node].left].identifier, <<h[h[node].right].value>>))
    ELSE NoTermEx

\* The exponents given to make_term: none, or a number up to MaxBind + 1.
Exponents == {<<>>} \cup {<<e>> : e \in 0..(MaxBind + 1)}

InitMakeTerm ==
    /\ heap = EmptyHeap
    /\ pre = heap
    /\ \E coefficient \in 1..MaxCoef, variable \in {""} \cup VarNames,
          exponent \in Exponents :
          op = [NoOp EXCEPT !.args = <<coefficient, variable, exponent>>]
    /\ steps = 0

\* make_term(coefficient, variable, exponent)
MakeTerm ==
    /\ op.name = "init"
    /\ LET t == make_term(heap, op.args[1], op.args[2], op.args[3])
       IN  /\ heap' = t.h
           /\ op' = [op EXCEPT !.name = "make_term", !.node = t.r]
    /\ pre' = heap
    /\ steps' = steps + 1

\* get_term_ex(node) of the term built
GetTermEx ==
    /\ op.name = "make_term"
    /\ op' = [op EXCEPT !.name = "get_term_ex", !.ret = get_term_ex(heap, op.node)]
    /\ UNCHANGED <<heap, pre>>
    /\ steps' = steps + 1

NextMakeTerm == MakeTerm \/ GetTermEx

SpecMakeTerm == InitMakeTerm /\ [][NextMakeTerm]_vars

\* The value of coefficient * variable ^ exponent where the variable is
\* bound to x: the exponent is 1 when there is none, and the value is the
\* coefficient when there is no variable.
TermValue(coefficient, variable, exponent, context) ==
    IF variable = "" THEN IntVal(coefficient)
    ELSE IntVal(coefficient * IntPower(context.vals[variable],
                                       IF exponent = <<>> THEN 1 ELSE exponent[1]))

\* The contexts that bind every variable to a number other than 0.
NonZeroBindings ==
    {context \in Bindings(VarNames) : \A v \in VarNames : context.vals[v] # 0}

\* C26: the tree make_term builds has the value coefficient *
\* variable ^ exponent under every binding, it holds no coefficient 1, and
\* get_term_ex of it gives back the variable and the exponent.
C26_MakeTermDenotes ==
    op.name \in {"make_term", "get_term_ex"} =>
        /\ \A context \in NonZeroBindings :
              evaluate(heap, op.node, context)
                  = TermValue(op.args[1], op.args[2], op.args[3], context)
        /\ (op.args[1] = 1 /\ op.args[2] # "") =>
              \A n \in Subtree(heap, op.node) :
                  heap[n].kind = ConstantExpression =>
                      (heap[n].parent # None /\ heap[heap[n].parent].kind = PowerExpression)
        /\ op.name = "get_term_ex" =>
              /\ ~op.ret.none
              /\ op.ret.term.variable = op.args[2]
              /\ op.ret.term.exponent = op.args[3]

---------------------------------------------------------------------------
(* The game: a board with one expression, move count and focus index per   *)
(* player, the moves of getNextState and the verdict of getGameEnded.      *)
(* The board keeps the text of each expression; every call parses it into  *)
(* fresh objects, so heap holds the objects of the last call only.         *)

\* MathGame.draw
MathGame_draw == Num(1, 10000)

\* The move count above which a game can be drawn.
TurnLimit == 20

\* The players.
Players == {1, -1}

\* MathState.decode_player(board, player): text, move count, focus index.
decode_player(board, player) == board[player]

\* MathState.encode_player(board, player, root, move_count, focus_index)
encode_player(board, player, h, root, move_count, focus_index) ==
    [board EXCEPT ![player] = [text |-> str(h, root), move_count |-> move_count,
                               focus_index |-> focus_index]]

\* self.parser.parse(text), the objects built in heap h.
parser_parse(h, text) == Build(h, parse(text).tree)

\* MetaAction.count_nodes(expression): the number of nodes of the tree the
\* expression is in, and the inorder position of the expression (-1 when
\* it is not met).
MetaAction_count_nodes(h, expression) ==
    LET nodes == toList(h, get_root(h, expression))
    IN  [count |-> Len(nodes),
         found |-> IF \E i \in 1..Len(nodes) : nodes[i] = expression
                   THEN (CHOOSE i \in 1..Len(nodes) : nodes[i] = expression) - 1
                   ELSE -1]

\* VisitBeforeAction.canVisit(expression)
VisitBeforeAction_canVisit(h, expression) ==
    LET c == MetaAction_count_nodes(h, expression)
    IN  c.found > 1 /\ c.count > 1

\* VisitBeforeAction.visit(expression, focus_index)
VisitBeforeAction_visit(focus_index) == focus_index - 1

\* VisitAfterAction.canVisit(expression)
VisitAfterAction_canVisit(h, expression) ==
    LET c == MetaAction_count_nodes(h, expression)
    IN  c.found >= 0 /\ c.found < c.count - 2

\* VisitAfterAction.visit(expression, focus_index)
VisitAfterAction_visit(focus_index) == focus_index + 1

\* available_actions + available_rules, in the order of the constructor.
available_actions == <<"VisitAfterAction", "VisitBeforeAction">>
available_rules ==
    <<"CommutativeSwapRule", "DistributiveFactorOutRule", "DistributiveMultiplyRule",
      "AssociativeSwapRule", "ConstantsSimplifyRule">>

\* getActionSize()
getActionSize == Len(available_rules) + Len(available_actions)

\* getFocusToken(expression, focus_index): the visit stops at the node
\* counted focus_index, result being the node visited last.
getFocusToken(h, expression, focus_index) ==
    LET nodes == toList(h, expression)
    IN  IF focus_index \in 0..(Len(nodes) - 1)
        THEN nodes[focus_index + 1]
        ELSE nodes[Len(nodes)]

\* ConstantsSimplify.can_apply_to(node): a binary node whose children are
\* both constants.  The constants of the model are integers, so the sums,
\* differences and products are the nodes folded.
ConstantsSimplify_can_apply_to(h, node) ==
    /\ h[node].kind \in {AddExpression, SubtractExpression, MultiplyExpression}
    /\ isinstance(h, h[node].left, ConstantExpression)
    /\ isinstance(h, h[node].right, ConstantExpression)

\* ConstantsSimplify.apply_to(node): the node is replaced by the constant
\* its operate gives.
ConstantsSimplify_apply_to(h, node) ==
    LET change == BaseRule_apply_to(h, node)
        v == operate(h[node].kind, IntVal(h[h[node].left].value),
                     IntVal(h[h[node].right].value))
        c == NewConstant(h, v.n)
        parent == h[node].parent
        h1 == IF parent = None THEN c.h
              ELSE set_side(c.h, parent, c.r, get_side(h, parent, node))
    IN  [h |-> h1, r |-> done(h1, change, c.r)]

\* DistributiveFactorOut.can_apply_to(node): a sum of two terms with a
\* common factor.
DistributiveFactorOutRule_canApplyTo(h, node) ==
    /\ h[node].kind = AddExpression
    /\ LET l == get_term_ex(h, h[node].left)
           r == get_term_ex(h, h[node].right)
       IN  ~l.none /\ ~r.none /\ DistributiveFactorOut_can_apply_to(l.term, r.term)

\* DistributiveMultiply.can_apply_to(node): a product with a sum as a factor.
DistributiveMultiplyRule_canApplyTo(h, node) ==
    /\ h[node].kind = MultiplyExpression
    /\ \/ isinstance(h, h[node].left, AddExpression)
       \/ isinstance(h, h[node].right, AddExpression)

\* AssociativeSwap.can_apply_to(node): a sum in a sum or a product in a
\* product.
AssociativeSwapRule_canApplyTo(h, node) ==
    /\ h[node].kind \in {AddExpression, MultiplyExpression}
    /\ \/ isinstance(h, h[node].left, h[node].kind)
       \/ isinstance(h, h[node].right, h[node].kind)

\* rule.canApplyTo(token) of the rules of available_rules.
canApplyTo(h, rule, token) ==
    CASE rule = "CommutativeSwapRule" -> can_apply_to(h, TRUE, token)
      [] rule = "DistributiveFactorOutRule" -> DistributiveFactorOutRule_canApplyTo(h, token)
      [] rule = "DistributiveMultiplyRule" -> DistributiveMultiplyRule_canApplyTo(h, token)
      [] rule = "AssociativeSwapRule" -> AssociativeSwapRule_canApplyTo(h, token)
      [] rule = "ConstantsSimplifyRule" -> ConstantsSimplify_can_apply_to(h, token)

\* The rules whose applyTo is modelled.
Rewriting == {"CommutativeSwapRule", "ConstantsSimplifyRule"}

\* rule.applyTo(node) of those rules.
applyTo(h, rule, node) ==
    IF rule = "CommutativeSwapRule" THEN apply_to(h, node)
    ELSE ConstantsSimplify_apply_to(h, node)

\* The marks of getValidMoves for a focus token: the meta actions first,
\* then the rules.
ValidMoves(h, token) ==
    [i \in 1..getActionSize |->
        IF i = 1 THEN (IF VisitAfterAction_canVisit(h, token) THEN 1 ELSE 0)
        ELSE IF i = 2 THEN (IF VisitBeforeAction_canVisit(h, token) THEN 1 ELSE 0)
        ELSE IF canApplyTo(h, available_rules[i - 2], token) THEN 1 ELSE 0]

\* getValidMoves, the expression parsed.
getValidMoves_parsed(expression, focus_index) ==
    ValidMoves(expression.h, getFocusToken(expression.h, expression.r, focus_index))

\* getValidMoves(board, player): the vector of 0 and 1 over the actions.
getValidMoves(board, player) ==
    getValidMoves_parsed(parser_parse(EmptyHeap, decode_player(board, player).text),
                         decode_player(board, player).focus_index)

\* The result of getNextState: the objects of the call, the exception
\* raised if any, the next player and the next board.
NextState(h, raised, player, board) ==
    [h |-> h, raised |-> raised, player |-> player, board |-> board]

\* The rule branch of getNextState, the rule applied to the root clone.
RuleMove(board, player, change) ==
    NextState(change.h, "", player * (-1),
              encode_player(board, player, change.h, change.r.root,
                            decode_player(board, player).move_count + 1,
                            decode_player(board, player).focus_index))

\* operation.applyTo(token.rootClone())
applyTo_rootClone(rule, c) == applyTo(c.h, rule, c.r)

\* The meta action branch of getNextState.
MetaMove(board, player, action, h, expression) ==
    NextState(h, "", player * (-1),
              encode_player(board, player, h, expression,
                            decode_player(board, player).move_count + 1,
                            IF action = 0
                            THEN VisitAfterAction_visit(decode_player(board, player).focus_index)
                            ELSE VisitBeforeAction_visit(decode_player(board, player).focus_index)))

\* getNextState, the expression parsed and the focus token found.
getNextState_focused(board, player, action, h, expression, token) ==
    IF action >= Len(available_actions)
          /\ canApplyTo(h, available_rules[action - 1], token)
    THEN RuleMove(board, player,
                  applyTo_rootClone(available_rules[action - 1],
                                    clone_from_root(h, token, token)))
    ELSE IF action < Len(available_actions)
    THEN MetaMove(board, player, action, h, expression)
    ELSE NextState(h, "Exception", player, board)

\* getNextState, the expression parsed.
getNextState_parsed(board, player, action, expression) ==
    getNextState_focused(board, player, action, expression.h, expression.r,
                         getFocusToken(expression.h, expression.r,
                                       decode_player(board, player).focus_index))

\* getNextState(board, player, action): the next board and player, or the
\* exception of an invalid move.
getNextState(board, player, action) ==
    getNextState_parsed(board, player, action,
                        parser_parse(EmptyHeap, decode_player(board, player).text))

\* math.isclose(a, b) of two results.
isclose(a, b) == a.t = "num" /\ b.t = "num" /\ a = b

\* The verdict on a single constant: eval is the value of the original
\* problem, found the value of the constant.
ConstantVerdict(eval, found) ==
    IF IsRaised(eval) THEN eval
    ELSE IF IsRaised(found) THEN found
    ELSE IF isclose(eval, found) THEN IntVal(-1)
    ELSE IntVal(1)

\* The addition looked at: the expression if it is one, else the first
\* that findByType gives, else None.
FirstAddition(h, root, find) ==
    IF h[root].kind = AddExpression THEN root
    ELSE IF Len(find) > 0 THEN find[1] ELSE None

\* The child of add_sub of the kind, the left one first, else None.
ChildOfKind(h, add_sub, kind) ==
    IF isinstance(h, h[add_sub].left, kind) THEN h[add_sub].left
    ELSE IF isinstance(h, h[add_sub].right, kind) THEN h[add_sub].right
    ELSE None

\* The test for the sum of a constant and a variable.
TermVerdict(h, add_sub) ==
    /\ add_sub # None
    /\ h[add_sub].parent = None
    /\ ChildOfKind(h, add_sub, ConstantExpression) # None
    /\ ChildOfKind(h, add_sub, VariableExpression) # None

\* getGameEnded, the expression and the original problem parsed.
getGameEnded_parsed(h, root, original, move_count, move_count_other) ==
    IF h[root].kind = ConstantExpression /\ is_leaf(h, root) /\ h[root].parent = None
    THEN ConstantVerdict(evaluate(original.h, original.r, NoContext),
                         evaluate(h, root, NoContext))
    ELSE IF TermVerdict(h, FirstAddition(h, root, findByType(h, root, {AddExpression})))
    THEN IntVal(1)
    ELSE IF move_count > TurnLimit /\ move_count_other > TurnLimit
    THEN MathGame_draw
    ELSE IntVal(0)

\* The parsed expression handed on as heap and root.
getGameEnded_expression(expression, original, move_count, move_count_other) ==
    getGameEnded_parsed(expression.h, expression.r, original, move_count,
                        move_count_other)

\* getGameEnded(board, player): 0, 1, -1 or MathGame.draw, or the exception
\* of an evaluate.
getGameEnded(board, player, expression_str) ==
    getGameEnded_expression(
        parser_parse(EmptyHeap, decode_player(board, player).text),
        parser_parse(EmptyHeap, expression_str),
        decode_player(board, player).move_count,
        decode_player(board, player * (-1)).move_count)

\* The problems played: sums and products of two leaves.
Problems ==
    TreesUpTo(MaxLinkSize, Leaves(1..MaxConst, VarNames), {},
              {AddExpression, MultiplyExpression})

\* The board of getInitBoard for a problem: each player has its text, no
\* move made and the focus on the first node.
InitBoard(text) ==
    [p \in Players |-> [text |-> text, move_count |-> 0, focus_index |-> 0]]

\* The rules that rewrite are the only rules valid on the board.
Playable(board) ==
    \A p \in Players : \A i \in 1..Len(available_rules) :
        getValidMoves(board, p)[i + 2] = 1 => available_rules[i] \in Rewriting

\* str(expression) of a tree built.
Text(b) == str(b.h, b.r)

\* getInitBoard() for a problem on which only the rules that rewrite are
\* valid, wherever the focus is.
Problem(text) ==
    /\ \A f \in 0..2 : Playable([InitBoard(text) EXCEPT ![1].focus_index = f])
    /\ op = [NoOp EXCEPT !.board = InitBoard(text), !.expression_str = text]

InitGame ==
    /\ heap = EmptyHeap
    /\ pre = heap
    /\ \E t \in Problems :
          /\ Len(t) = 3
          /\ Problem(Text(Build(EmptyHeap, t)))
    /\ steps = 0

\* getValidMoves(board, player) for the player to move, the game not
\* having ended.
GetValidMoves ==
    /\ op.name \in {"init", "getGameEnded"}
    /\ op.ended = IntVal(0)
    /\ op' = [op EXCEPT !.name = "getValidMoves",
                        !.valid = getValidMoves(op.board, op.player)]
    /\ UNCHANGED <<heap, pre>>
    /\ steps' = steps + 1

\* The state after getNextState has returned next.
Moved(action, next) ==
    /\ heap' = next.h
    /\ op' = [op EXCEPT !.name = "getNextState", !.action = action,
                        !.board = next.board, !.player = next.player,
                        !.raised = next.raised]

\* A move of the player to move: getNextState with an action that
\* getValidMoves has marked.
GetNextState ==
    /\ op.name = "getValidMoves"
    /\ \E action \in 0..(getActionSize - 1) :
          /\ op.valid[action + 1] = 1
          /\ Moved(action, getNextState(op.board, op.player, action))
    /\ pre' = heap
    /\ steps' = steps + 1

\* getGameEnded(board, player) for the player to move next.
GetGameEnded ==
    /\ op.name = "getNextState"
    /\ op' = [op EXCEPT !.name = "getGameEnded",
                        !.ended = getGameEnded(op.board, op.player, op.expression_str)]
    /\ UNCHANGED <<heap, pre>>
    /\ steps' = steps + 1

NextGame == GetValidMoves \/ GetNextState \/ GetGameEnded

SpecGame == InitGame /\ [][NextGame]_vars

\* A call of the play can be made: the guards of the three calls.
Playing ==
    \/ op.name \in {"init", "getGameEnded"} /\ op.ended = IntVal(0)
    \/ op.name = "getValidMoves" /\ \E i \in 1..getActionSize : op.valid[i] = 1
    \/ op.name = "getNextState"

\* A call of the play: each of the three calls counts one step.
Tick == Playing /\ steps' = steps + 1

\* The play goes on while a call can be made.
SpecGameFair == SpecGame /\ WF_steps(Tick)

\* The tree of a player's expression, its node count, and whether the
\* original problem has the value v.
PlayerTree(p) == parse(op.board[p].text).tree
NodeCount(p) == LET e == parser_parse(EmptyHeap, op.board[p].text) IN Len(toList(e.h, e.r))
OriginalValue ==
    LET e == parser_parse(EmptyHeap, op.expression_str) IN evaluate(e.h, e.r, NoContext)

\* The player's expression is a single constant, the root of its tree.
Reduced(p) == PlayerTree(p)[1] = ConstantExpression

\* The player's expression is the sum of a constant and a variable.
TermWin(p) ==
    LET t == PlayerTree(p)
    IN  /\ t[1] = AddExpression
        /\ {t[2][1], t[3][1]} = {ConstantExpression, VariableExpression}

\* Both players are over the turn limit.
OverLimit == \A p \in Players : op.board[p].move_count > TurnLimit

\* C23: getGameEnded returns 1 for a single constant of the value of the
\* original problem and -1 for a single constant of another value, and it
\* returns 0 exactly when the game has not ended: no single constant, no
\* sum of a constant and a variable, and not both players over the limit.
C23_GameEndedVerdict ==
    op.name = "getGameEnded" =>
        /\ (Reduced(op.player) /\ IntVal(PlayerTree(op.player)[2]) = OriginalValue)
              => op.ended = IntVal(1)
        /\ (Reduced(op.player) /\ IntVal(PlayerTree(op.player)[2]) # OriginalValue)
              => op.ended = IntVal(-1)
        /\ op.ended = IntVal(0)
              <=> (~Reduced(op.player) /\ ~TermWin(op.player) /\ ~OverLimit)

\* The player's expression satisfies a win condition.
WinCondition(p) ==
    \/ Reduced(p) /\ IntVal(PlayerTree(p)[2]) = OriginalValue
    \/ TermWin(p)

\* The player's expression satisfies the lose condition.
LoseCondition(p) == Reduced(p) /\ IntVal(PlayerTree(p)[2]) # OriginalValue

\* C28: a win condition is reported as a win whatever the move counts; a
\* draw is reported only when no win or lose condition holds and both move
\* counts are over the limit; every move adds one to the mover's count and
\* passes the turn; and every play reaches a verdict other than 0 within
\* the moves that take both players over the limit.
C28_TurnLimitAndTermination ==
    /\ [](op.name = "getGameEnded" =>
            /\ WinCondition(op.player) => op.ended = IntVal(1)
            /\ op.ended = MathGame_draw =>
                  (~WinCondition(op.player) /\ ~LoseCondition(op.player) /\ OverLimit))
    /\ [][op'.name = "getNextState" =>
            /\ op'.player = op.player * (-1)
            /\ op'.board[op.player].move_count = op.board[op.player].move_count + 1
            /\ op'.board[op'.player].move_count = op.board[op'.player].move_count]_vars
    /\ [](op.board[1].move_count + op.board[-1].move_count <= 2 * (TurnLimit + 1))
    /\ <>(op.name = "getGameEnded" /\ op.ended # IntVal(0))

\* C29: the focus index of each player stays a position of the player's
\* expression, so that getFocusToken gives the node at that position.
C29_FocusInRange ==
    \A p \in Players :
        LET e == parser_parse(EmptyHeap, op.board[p].text)
            nodes == toList(e.h, e.r)
            focus_index == op.board[p].focus_index
        IN  /\ focus_index \in 0..(Len(nodes) - 1)
            /\ getFocusToken(e.h, e.r, focus_index) = nodes[focus_index + 1]

====
